---------------------------- MODULE Spec2Model ----------------------------
(***************************************************************************)
(* Model of the incident analytics endpoints of src/app.py (the dashboard  *)
(* backend): the daily aggregation query over the incidents table, the     *)
(* z-score anomaly endpoint and the linear-trend forecast endpoint.        *)
(*                                                                         *)
(* Numbers.  Dates are day numbers.  A float that the code computes by     *)
(* +,-,*,/ from integers is carried as an exact fraction [num, den] with   *)
(* den > 0.  A standard deviation is a square root, so it is carried as    *)
(* its square: [nan |-> FALSE, sq |-> fraction], or [nan |-> TRUE, ...]    *)
(* for the IEEE not-a-number pandas returns for 0/0.  A value rounded to   *)
(* two decimals is carried as an integer number of hundredths.             *)
(***************************************************************************)
EXTENDS Integers, Sequences, FiniteSets, TLC

\* ---- bounds of the model ----
MaxDay == 5
MaxPerDay == 2
MaxIncidents == 7
\* the rows the writing endpoints may insert in all
MaxWrites == 2
\* the playbook requests served at the same time
MaxWorkers == 2

\* ---- constants of the program ----
WindowDays == 60
DefaultDays == 14
MinHorizon == 1
MaxHorizon == 60
NaiveBase == 5
Ddof == 1

VARIABLES
    client,     \* TRUE when bigquery.Client(...) succeeded at import, FALSE for None
    now,        \* the day datetime.now() falls on
    incidents,  \* table si2a_gold.incidents: the number of rows created on each day
    incident,   \* the row of that table with the requested incident_id, or NotFound
    request,    \* the exchange being served (NoRequest when there is none)
    response,   \* the response of that exchange
    evidence,   \* table si2a_evidence.object_references: the rows inserted
    feedback,   \* table si2a_feedback.ai_generation_feedback: the rows inserted
    workers,    \* the playbook requests served at the same time, each with its locals
    heap        \* the Python objects those requests have created

vars == <<client, now, incidents, incident, request, response, evidence, feedback,
          workers, heap>>

Days == 0..MaxDay

\* ---------------------------------------------------------------------
\* Exact fractions
\* ---------------------------------------------------------------------
RECURSIVE GCD(_, _)
GCD(a, b) == IF b = 0 THEN a ELSE GCD(b, a % b)
Abs(n) == IF n < 0 THEN -n ELSE n

\* the fraction n/d in lowest terms with a positive denominator (d # 0)
Frac(n, d) ==
    LET g == GCD(Abs(n), Abs(d))
    IN  IF d < 0 THEN [num |-> (-n) \div g, den |-> (-d) \div g]
        ELSE [num |-> n \div g, den |-> d \div g]
FInt(n) == [num |-> n, den |-> 1]
FAdd(a, b) == Frac(a.num * b.den + b.num * a.den, a.den * b.den)
FSub(a, b) == Frac(a.num * b.den - b.num * a.den, a.den * b.den)
FMul(a, b) == Frac(a.num * b.num, a.den * b.den)
FDiv(a, b) == Frac(a.num * b.den, a.den * b.num)
FLe(a, b) == a.num * b.den <= b.num * a.den
FIsZero(a) == a.num = 0
FMax(a, b) == IF FLe(b, a) THEN a ELSE b

NaN == [nan |-> TRUE, sq |-> FInt(0)]
Root(f) == [nan |-> FALSE, sq |-> f]


\* ---------------------------------------------------------------------
\* The warehouse and the daily aggregation query
\* ---------------------------------------------------------------------
RECURSIVE AscendingFrom(_, _)
\* the members of the set S of day numbers from day d on, in ascending order
AscendingFrom(S, d) ==
    IF \A e \in S : e < d THEN << >>
    ELSE IF d \in S THEN <<d>> \o AscendingFrom(S, d + 1)
    ELSE AscendingFrom(S, d + 1)

\* SELECT DATE(created_at) AS date, COUNT(*) AS incident_count ...
\* WHERE created_at >= TIMESTAMP(start_date as %Y-%m-%d) GROUP BY date ORDER BY date
DailyCountsQuery(table, today) ==
    LET start_date == today - WindowDays
        dates == {d \in DOMAIN table : table[d] > 0 /\ d >= start_date}
        ordered == AscendingFrom(dates, 0)
    IN  [i \in 1..Len(ordered) |->
            [date |-> ordered[i], incident_count |-> table[ordered[i]]]]

RECURSIVE RowsUpTo(_, _)
\* the number of rows of the table created on the days 0..d
RowsUpTo(table, d) == IF d < 0 THEN 0 ELSE table[d] + RowsUpTo(table, d - 1)

\* df.empty
DfEmpty(df) == Len(df) = 0

\* df['date'].min(), df['date'].max()
DateMin(df) == CHOOSE d \in {df[i].date : i \in 1..Len(df)} :
                   \A i \in 1..Len(df) : d <= df[i].date
DateMax(df) == CHOOSE d \in {df[i].date : i \in 1..Len(df)} :
                   \A i \in 1..Len(df) : d >= df[i].date

\* ---------------------------------------------------------------------
\* Gap fill (anomalies_incidents)
\* ---------------------------------------------------------------------
\* faulty variant: the range runs one day past hi
DateRangeOneMore(lo, hi) == [i \in 1..(hi - lo + 2) |-> lo + i - 1]

\* pd.date_range(lo, hi, freq='D'): every day from lo to hi inclusive
DateRange(lo, hi) == [i \in 1..(hi - lo + 1) |-> lo + i - 1]

\* faulty variant: the missing days take the previous day's count (ffill), not 0
ReindexForwardFill(df, full_idx) ==
    [i \in 1..Len(full_idx) |->
        [date |-> full_idx[i],
         incident_count |->
            LET k == CHOOSE k \in 1..Len(df) :
                        /\ df[k].date <= full_idx[i]
                        /\ \A j \in 1..Len(df) :
                              df[j].date <= full_idx[i] => df[j].date <= df[k].date
            IN  df[k].incident_count]]

\* df.set_index('date')['incident_count'].reindex(full_idx).fillna(0)
Reindex(df, full_idx) ==
    [i \in 1..Len(full_idx) |->
        [date |-> full_idx[i],
         incident_count |->
            IF \E k \in 1..Len(df) : df[k].date = full_idx[i]
            THEN df[CHOOSE k \in 1..Len(df) : df[k].date = full_idx[i]].incident_count
            ELSE 0]]

\* ---------------------------------------------------------------------
\* Statistics (pandas Series.mean, Series.std)
\* ---------------------------------------------------------------------
RECURSIVE SumCounts(_)
SumCounts(s) == IF s = << >> THEN 0 ELSE Head(s).incident_count + SumCounts(Tail(s))

\* s.mean()
Mean(s) == Frac(SumCounts(s), Len(s))

RECURSIVE SumSqDev(_, _)
\* sum over the series of (count - m)^2
SumSqDev(s, m) ==
    IF s = << >> THEN FInt(0)
    ELSE LET dev == FSub(FInt(Head(s).incident_count), m)
         IN  FAdd(FMul(dev, dev), SumSqDev(Tail(s), m))

\* s.std(): pandas' default, the square root of the sum of squared deviations
\* over (N - ddof) with ddof = 1; not-a-number when N - ddof <= 0
Std(s) ==
    IF Len(s) - Ddof <= 0 THEN NaN
    ELSE Root(FDiv(SumSqDev(s, Mean(s)), FInt(Len(s) - Ddof)))

\* float(x) or 1.0: Python takes 1.0 only when x is falsy, i.e. exactly 0.0;
\* not-a-number is truthy and is kept
OrOne(x) == IF ~x.nan /\ FIsZero(x.sq) THEN Root(FInt(1)) ELSE x

\* (s - mean) / std for one count: the z-score, as its sign and its square
ZScore(count, mean, std) ==
    LET dev == FSub(FInt(count), mean)
    IN  IF std.nan THEN [nan |-> TRUE, sign |-> 0, sq |-> FInt(0)]
        ELSE [nan |-> FALSE,
              sign |-> IF dev.num > 0 THEN 1 ELSE IF dev.num < 0 THEN -1 ELSE 0,
              sq |-> FDiv(FMul(dev, dev), std.sq)]

\* faulty variant: the comparison without abs(): only high counts are flagged
IsAnomalousNoAbs(z) == ~z.nan /\ z.sign > 0 /\ FLe(FInt(4), z.sq)

\* abs(float(z)) >= 2.0; every comparison with not-a-number is false
IsAnomalous(z) == ~z.nan /\ FLe(FInt(4), z.sq)

\* the list comprehensions that build 'anomalies' and 'series'
AnomalyRows(s, mean, std) ==
    LET rows == [i \in 1..Len(s) |->
                    [date |-> s[i].date, incident_count |-> s[i].incident_count,
                     zscore |-> ZScore(s[i].incident_count, mean, std)]]
    IN  SelectSeq(rows, LAMBDA r : IsAnomalous(r.zscore))

SeriesRows(s) ==
    [i \in 1..Len(s) |-> [date |-> s[i].date, incident_count |-> s[i].incident_count]]

\* ---------------------------------------------------------------------
\* Responses
\* ---------------------------------------------------------------------
NoResponse == [status |-> 0]
NoDays == [kind |-> "absent", val |-> 0]
\* an exchange: the endpoint, its 'days' argument, and how client.query ended
\* ("ok", "failed", or "not_run" when the handler returned before the query)
NoRequest == [op |-> "none", days |-> NoDays, query |-> "not_run"]
\* no playbook request is being served, and none has created an object
ClientUnavailable == [status |-> 500, error |-> "BigQuery client not available"]
QueryFailed == [status |-> 500, error |-> "exception"]

\* no exchange is open: the previous response, if any, has been sent
Idle == request = NoRequest

\* the statistics path of anomalies_incidents, for a frame with rows
DenseAnomalies(df) ==
    LET full_idx == DateRange(DateMin(df), DateMax(df))
        s == Reindex(df, full_idx)
        mean == Mean(s)
        std == OrOne(Std(s))
    IN  [status |-> 200, series |-> SeriesRows(s),
         anomalies |-> AnomalyRows(s, mean, std), mean |-> mean, std |-> std]

\* faulty variant: no df.empty test: min() of no dates makes date_range raise, and the
\* handler's except clause answers 500
AnomaliesResultNoGuard(df) ==
    IF DfEmpty(df) THEN QueryFailed ELSE DenseAnomalies(df)

\* the body of anomalies_incidents once the query has returned df
AnomaliesResult(df) ==
    IF DfEmpty(df) THEN [status |-> 200, series |-> << >>, anomalies |-> << >>]
    ELSE DenseAnomalies(df)

\* GET /api/anomalies/incidents
anomalies_incidents ==
    /\ Idle
    /\ \/ /\ ~client
          /\ request' = [op |-> "anomalies", days |-> NoDays, query |-> "not_run"]
          /\ response' = ClientUnavailable
       \/ /\ client
          /\ request' = [op |-> "anomalies", days |-> NoDays, query |-> "failed"]
          /\ response' = QueryFailed
       \/ /\ client
          /\ request' = [op |-> "anomalies", days |-> NoDays, query |-> "ok"]
          /\ response' = AnomaliesResult(DailyCountsQuery(incidents, now))
    /\ UNCHANGED <<client, now, incidents, incident, evidence, feedback, workers, heap>>


\* ---------------------------------------------------------------------
\* Forecast (forecast_incidents)
\* ---------------------------------------------------------------------
Min2(a, b) == IF a <= b THEN a ELSE b
Max2(a, b) == IF a >= b THEN a ELSE b

\* the 'days' query argument: absent, an integer literal, or text int() rejects
DaysArgs ==
    {[kind |-> "absent", val |-> 0], [kind |-> "bad", val |-> 0]}
    \cup {[kind |-> "int", val |-> v] : v \in {-2, 0, 3, MaxHorizon + 1}}

\* int(request.args.get('days', '14')) raises ValueError on text that is no integer
DaysParses(arg) == arg.kind # "bad"
ParseDays(arg) == IF arg.kind = "absent" THEN DefaultDays ELSE arg.val

\* faulty variant: the lower clamp is missing
ClampHorizonNoFloor(h) == Min2(h, MaxHorizon)

\* horizon_days = max(1, min(horizon_days, 60))
ClampHorizon(h) == Max2(MinHorizon, Min2(h, MaxHorizon))

\* round(x, 2) of a non-negative fraction, in hundredths: nearest, ties to even
Round2(x) ==
    LET n == x.num * 100
        q == n \div x.den
        r == n % x.den
    IN  IF 2 * r < x.den THEN q
        ELSE IF 2 * r > x.den THEN q + 1
        ELSE IF q % 2 = 0 THEN q ELSE q + 1

\* faulty variant: the flat forecast grows with the day, base * (i + 1)
NaiveForecastScaled(today, horizon_days) ==
    [k \in 1..horizon_days |->
        [date |-> today + ((k - 1) + 1), predicted_incidents |-> NaiveBase * k * 100]]

\* the flat forecast of the empty branch: base = 5 for each day after now
NaiveForecast(today, horizon_days) ==
    [k \in 1..horizon_days |->
        [date |-> today + ((k - 1) + 1), predicted_incidents |-> NaiveBase * 100]]

RECURSIVE SumT(_, _)
\* sums over the rows 1..k of the frame of f(t, y), with t = row index - 1
SumT(df, k) == IF k = 0 THEN 0 ELSE (k - 1) + SumT(df, k - 1)
RECURSIVE SumTT(_, _)
SumTT(df, k) == IF k = 0 THEN 0 ELSE (k - 1) * (k - 1) + SumTT(df, k - 1)
RECURSIVE SumTYFromOne(_, _)
\* faulty variant: the time index starts at 1, as range(1, len(df) + 1) would
SumTYFromOne(df, k) == IF k = 0 THEN 0
                       ELSE k * df[k].incident_count + SumTYFromOne(df, k - 1)
RECURSIVE SumTY(_, _)
SumTY(df, k) == IF k = 0 THEN 0
                ELSE (k - 1) * df[k].incident_count + SumTY(df, k - 1)

\* faulty variant: the factor n is missing
DenomWithoutN(df) == SumTT(df, Len(df)) - SumT(df, Len(df)) * SumT(df, Len(df))

\* n * sum_tt - sum_t * sum_t
Denom(df) == Len(df) * SumTT(df, Len(df)) - SumT(df, Len(df)) * SumT(df, Len(df))

\* the least-squares fit and its fallback when denom = 0
Fit(df) ==
    LET n == Len(df)
        sum_t == SumT(df, n)
        sum_y == SumCounts(df)
        sum_ty == SumTY(df, n)
        denom == Denom(df)
    IN  IF denom = 0
        THEN [slope |-> FInt(0),
              intercept |-> IF n # 0 THEN Frac(sum_y, n) ELSE FInt(df[Len(df)].incident_count),
              method |-> "naive_last"]
        ELSE LET slope == Frac(n * sum_ty - sum_t * sum_y, denom)
             IN  [slope |-> slope,
                  intercept |-> FDiv(FSub(FInt(sum_y), FMul(slope, FInt(sum_t))), FInt(n)),
                  method |-> "linear_trend"]

\* faulty variant: the prediction is not floored at 0.0
PredictNoFloor(fit, ti) == FAdd(FMul(fit.slope, FInt(ti)), fit.intercept)

\* pred = max(0.0, slope * ti + intercept)
Predict(fit, ti) == FMax(FInt(0), FAdd(FMul(fit.slope, FInt(ti)), fit.intercept))

\* faulty variant: iloc[0] for iloc[-1]: the first date of the frame
LastDateIsFirst(df) == df[1].date

\* df['date'].iloc[-1] of the frame sorted by date
LastDate(df) == df[Len(df)].date

\* the loop for i in range(1, horizon_days + 1)
TrendForecast(df, fit, horizon_days) ==
    LET start_t == Len(df) - 1
        last_date == LastDate(df)
    IN  [i \in 1..horizon_days |->
            [date |-> last_date + i,
             predicted_incidents |-> Round2(Predict(fit, start_t + i))]]

\* df.sort_values('date'): the rows in ascending date order
SortValues(df) ==
    LET ordered == AscendingFrom({df[k].date : k \in 1..Len(df)}, 0)
    IN  [i \in 1..Len(ordered) |-> df[CHOOSE k \in 1..Len(df) : df[k].date = ordered[i]]]

\* the body of forecast_incidents once the query has returned df
ForecastResult(df, today, horizon_days) ==
    IF DfEmpty(df)
    THEN [status |-> 200, history |-> << >>,
          forecast |-> NaiveForecast(today, horizon_days), method |-> "naive"]
    ELSE LET sorted == SortValues(df)
             fit == Fit(sorted)
         IN  [status |-> 200, history |-> SeriesRows(sorted),
              forecast |-> TrendForecast(sorted, fit, horizon_days),
              method |-> fit.method]

\* GET /api/forecast/incidents?days=...
forecast_incidents ==
    \E arg \in DaysArgs :
        /\ Idle
        /\ \/ /\ ~client
              /\ request' = [op |-> "forecast", days |-> arg, query |-> "not_run"]
              /\ response' = ClientUnavailable
           \/ /\ client
              /\ ~DaysParses(arg)
              /\ request' = [op |-> "forecast", days |-> arg, query |-> "not_run"]
              /\ response' = QueryFailed
           \/ /\ client
              /\ DaysParses(arg)
              /\ request' = [op |-> "forecast", days |-> arg, query |-> "failed"]
              /\ response' = QueryFailed
           \/ /\ client
              /\ DaysParses(arg)
              /\ request' = [op |-> "forecast", days |-> arg, query |-> "ok"]
              /\ response' = ForecastResult(DailyCountsQuery(incidents, now), now,
                                            ClampHorizon(ParseDays(arg)))
        /\ UNCHANGED <<client, now, incidents, incident, evidence, feedback, workers, heap>>

\* ---------------------------------------------------------------------
\* Text.  A text the code inspects (lower(), title(), 'in') is a sequence of
\* one-character strings; a text it only copies is a plain string.
\* ---------------------------------------------------------------------
LowerLetters == <<"a", "b", "c", "d", "e", "f", "g", "h", "i", "j", "k", "l", "m", "n", "o", "p", "q", "r", "s", "t", "u", "v", "w", "x", "y", "z">>
UpperLetters == <<"A", "B", "C", "D", "E", "F", "G", "H", "I", "J", "K", "L", "M", "N", "O", "P", "Q", "R", "S", "T", "U", "V", "W", "X", "Y", "Z">>

IsUpperCh(ch) == \E k \in 1..Len(UpperLetters) : UpperLetters[k] = ch
IsLowerCh(ch) == \E k \in 1..Len(LowerLetters) : LowerLetters[k] = ch
LowerCh(ch) ==
    IF IsUpperCh(ch)
    THEN LowerLetters[CHOOSE k \in 1..Len(UpperLetters) : UpperLetters[k] = ch]
    ELSE ch
UpperCh(ch) ==
    IF IsLowerCh(ch)
    THEN UpperLetters[CHOOSE k \in 1..Len(LowerLetters) : LowerLetters[k] = ch]
    ELSE ch

\* str.lower()
Lower(text) == [i \in 1..Len(text) |-> LowerCh(text[i])]

\* str.title(): a letter is upper-cased after a non-letter, lower-cased after a letter
Title(text) ==
    [i \in 1..Len(text) |->
        IF i = 1 \/ ~(IsUpperCh(text[i - 1]) \/ IsLowerCh(text[i - 1]))
        THEN UpperCh(text[i]) ELSE LowerCh(text[i])]

\* key in text
Contains(text, key) ==
    \E i \in 0..(Len(text) - Len(key)) : SubSeq(text, i + 1, i + Len(key)) = key

\* the literals of the handlers
\* the string literals of the handlers, as texts
Txt ==
    [authentication |-> <<"a", "u", "t", "h", "e", "n", "t", "i", "c", "a", "t", "i", "o", "n">>,
     mfa |-> <<"m", "f", "a">>,
     data_leak |-> <<"d", "a", "t", "a", "_", "l", "e", "a", "k">>,
     credential |-> <<"c", "r", "e", "d", "e", "n", "t", "i", "a", "l">>,
     insider |-> <<"i", "n", "s", "i", "d", "e", "r">>,
     third_party |-> <<"t", "h", "i", "r", "d", "_", "p", "a", "r", "t", "y">>,
     critical |-> <<"c", "r", "i", "t", "i", "c", "a", "l">>,
     high |-> <<"h", "i", "g", "h">>,
     medium |-> <<"m", "e", "d", "i", "u", "m">>,
     low |-> <<"l", "o", "w">>,
     unknown |-> <<"u", "n", "k", "n", "o", "w", "n">>,
     general |-> <<"g", "e", "n", "e", "r", "a", "l">>,
     saas |-> <<"s", "a", "a", "s">>,
     access |-> <<"a", "c", "c", "e", "s", "s">>,
     viewer |-> <<"v", "i", "e", "w", "e", "r">>,
     analyst |-> <<"a", "n", "a", "l", "y", "s", "t">>,
     admin |-> <<"a", "d", "m", "i", "n">>]

\* ---------------------------------------------------------------------
\* Incident rows
\* ---------------------------------------------------------------------
\* a cell of a row: NULL, a value, or (numeric columns) text that is no number
Null == [kind |-> "null", v |-> 0]
Val(x) == [kind |-> "value", v |-> x]
Junk == [kind |-> "junk", v |-> 0]
\* a tags cell that holds a value which is not a Python list
NotAList == [kind |-> "other", v |-> 0]

NotFound == [found |-> FALSE]

\* the values the rows of the model take
SeverityCells ==
    {Null, Val(Txt.critical), Val(<<"C", "r", "i", "t", "i", "c", "a", "l">>), Val(Txt.high), Val(Txt.medium),
     Val(<<"s", "e", "v">>)}
CategoryCells ==
    {Null, Val(<<"a", "u", "t", "h", "e", "n", "t", "i", "c", "a", "t", "i", "o", "n", "_", "b", "y", "p", "a", "s", "s">>),
     Val(<<"A", "u", "t", "h", "e", "n", "t", "i", "c", "a", "t", "i", "o", "n", "_", "B", "y", "p", "a", "s", "s">>),
     Val(Txt.data_leak), Val(<<"c", "r", "e", "d", "e", "n", "t", "i", "a", "l", "_", "a", "u", "t", "h", "e", "n", "t", "i", "c", "a", "t", "i", "o", "n">>),
     Val(<<"i", "n", "s", "i", "d", "e", "r", "_", "t", "h", "r", "e", "a", "t">>), Val(Txt.third_party), Val(<<"n", "e", "t", "w", "o", "r", "k">>)}
DescriptionCells ==
    {Null, Val(<< >>), Val(<<"M", "F", "A", " ", "o", "f", "f">>), Val(<<"v", "p", "n", " ", "d", "o", "w", "n">>)}
TagsCells ==
    {Null, NotAList, Val(<< >>), Val(<<<<"M", "f", "a">>>>),
     Val(<<<<"v", "p", "n">>, <<"m", "f", "a">>>>), Val(<<<<"v", "p", "n">>>>)}
RiskCells ==
    {Null, Junk} \cup
    {Val(Frac(n, 100)) : n \in {-10, 0, 49, 50, 69, 70, 89, 90, 100, 150}} \cup
    {Val(Frac(899, 1000)), Val(Frac(499, 1000))}

\* a row with every column set
SampleRow ==
    [found |-> TRUE,
     title |-> Val("Login failures"),
     description |-> Val(<<"v", "p", "n", " ", "d", "o", "w", "n">>),
     severity |-> Val(Txt.medium),
     status |-> Val(<<"i", "n", " ", "r", "e", "v", "i", "e", "w">>),
     category |-> Val(<<"n", "e", "t", "w", "o", "r", "k">>),
     business_impact |-> Val("Login outage"),
     root_cause |-> Val("Misconfigured SSO"),
     resolution |-> Val("Keys rotated"),
     risk_score |-> Val(Frac(70, 100)),
     affected_users |-> Val(12),
     resolution_time_hours |-> Val(Frac(5, 2)),
     tags |-> Val(<<<<"v", "p", "n">>>>),
     created_at |-> Val(MaxDay)]

OptionalFields ==
    {"title", "category", "business_impact", "root_cause", "resolution", "risk_score",
     "affected_users", "resolution_time_hours", "description", "severity", "status",
     "tags"}

\* the sample row with the columns of the set nulls set to NULL
WithNulls(nulls) ==
    [f \in DOMAIN SampleRow |-> IF f \in nulls THEN Null ELSE SampleRow[f]]

\* rows with any set of optional columns NULL
NullRows == {WithNulls(nulls) : nulls \in SUBSET OptionalFields}

\* rows over the columns the rules of the handlers read
RuleRows ==
    {[SampleRow EXCEPT !.severity = sev, !.category = cat, !.description = desc,
                       !.tags = tags] :
        sev \in SeverityCells, cat \in CategoryCells,
        desc \in DescriptionCells, tags \in TagsCells}

\* rows over the risk score, and over the columns compared with their defaults
RiskRows == {[SampleRow EXCEPT !.risk_score = r] : r \in RiskCells}
DefaultLikeRows ==
    {[SampleRow EXCEPT !.root_cause = rc, !.resolution = res, !.affected_users = au,
                       !.resolution_time_hours = rt] :
        rc \in {Val("Undetermined"), Val("")}, res \in {Val("In progress"), Val("")},
        au \in {Junk, Val(0)}, rt \in {Junk, Val(FInt(0))}}

\* rows over the columns the compliance rules read
PolicyRows ==
    {[SampleRow EXCEPT !.severity = sev, !.description = desc, !.tags = tags] :
        sev \in SeverityCells \cup {Val(Txt.low)},
        desc \in
            {Null, Val(<<"v", "p", "n", " ", "d", "o", "w", "n">>), Val(<<"S", "a", "a", "S", " ", "a", "c", "c", "e", "s", "s">>),
            Val(<<"A", "c", "c", "e", "s", "s", " ", "v", "i", "a", " ", "M", "F", "A">>), Val(<<"n", "o", " ", "s", "a", "a", "s">>)}, tags \in
            {Null, Val(<< >>), Val(<<<<"a", "c", "c", "e", "s", "s">>, <<"m", "f", "a">>>>), Val(<<<<"s", "a", "a", "s">>, <<"a", "c", "c", "e", "s", "s">>>>),
            Val(<<<<"a", "c", "c", "e", "s", "s">>>>), Val(<<<<"M", "f", "a">>, <<"S", "A", "A", "S">>>>)}}

Rows == NullRows \cup RuleRows \cup RiskRows \cup DefaultLikeRows \cup PolicyRows

\* ---------------------------------------------------------------------
\* Executive summary (generate_ai_summary)
\* ---------------------------------------------------------------------
\* val(key, default): the default for None / NaN, the value otherwise
CellOr(cell, default) == IF cell.kind = "null" THEN default ELSE cell.v

\* float(val(key, 0.0)) and int(val(key, 0)) inside try/except: the default also
\* when the conversion raises
NumberOr(cell, default) == IF cell.kind = "value" THEN cell.v ELSE default

\* faulty variant: str(row.get('title')), the text of None for a NULL title
TitleOfUnguarded(row) == IF row.title.kind = "null" THEN "None" ELSE row.title.v

\* title = str(val('title', 'Untitled Incident'))
TitleOf(row) == CellOr(row.title, "Untitled Incident")

\* tags_list: the tags when the cell holds a list, [] otherwise
TagsList(row) == IF row.tags.kind = "value" THEN row.tags.v ELSE << >>

\* faulty variant: strict comparisons, a score on a threshold falls in the band below
RiskBandStrict(risk) ==
    IF ~FLe(risk, Frac(9, 10)) THEN "Very High"
    ELSE IF ~FLe(risk, Frac(7, 10)) THEN "High"
    ELSE IF ~FLe(risk, Frac(5, 10)) THEN "Moderate"
    ELSE "Low"

\* risk_band
RiskBand(risk) ==
    IF FLe(Frac(9, 10), risk) THEN "Very High"
    ELSE IF FLe(Frac(7, 10), risk) THEN "High"
    ELSE IF FLe(Frac(5, 10), risk) THEN "Moderate"
    ELSE "Low"

\* severity_text
SeverityText(severity) ==
    IF severity = Txt.critical
    THEN "Critical - immediate containment and executive comms required"
    ELSE IF severity = Txt.high THEN "High - rapid response, escalate to senior on-call"
    ELSE IF severity = Txt.medium THEN "Medium - standard response within 24-48h"
    ELSE IF severity = Txt.low THEN "Low - monitor and document"
    ELSE "Standard response"

Act ==
    [command |->
        "Initiate incident command and page senior on-call",
     contain |->
        "Contain blast radius and revoke suspicious access",
     mfa |->
        "Force password reset; enforce MFA re-verification for affected users",
     exposure |->
        "Start data exposure assessment and legal/compliance review",
     review |->
        "Document findings and schedule post-incident review within 72 hours"]

\* faulty variant: only 'critical' opens the command actions
SeverityActionsCriticalOnly(severity) ==
    IF severity = Txt.critical THEN <<Act.command, Act.contain>> ELSE << >>

\* if severity in ('critical', 'high'): two appends
SeverityActions(severity) ==
    IF severity \in {Txt.critical, Txt.high} THEN <<Act.command, Act.contain>> ELSE << >>

\* faulty variant: the description is searched without lower()
MfaActionsCaseSensitive(category, description, tags_list) ==
    IF \/ Contains(category, Txt.authentication)
       \/ Contains(description, Txt.mfa)
       \/ \E k \in 1..Len(tags_list) : Lower(tags_list[k]) = Txt.mfa
    THEN <<Act.mfa>> ELSE << >>

\* if 'authentication' in category or 'mfa' in description.lower()
\*    or 'mfa' in [t.lower() for t in tags_list]
MfaActions(category, description, tags_list) ==
    IF \/ Contains(category, Txt.authentication)
       \/ Contains(Lower(description), Txt.mfa)
       \/ \E k \in 1..Len(tags_list) : Lower(tags_list[k]) = Txt.mfa
    THEN <<Act.mfa>> ELSE << >>

\* if any(k in category for k in ['data_leak', 'credential', 'insider', 'third_party'])
ExposureActions(category) ==
    IF \E key \in {Txt.data_leak, Txt.credential, Txt.insider, Txt.third_party} :
          Contains(category, key)
    THEN <<Act.exposure>> ELSE << >>

\* suggestions, in the order of the appends
Suggestions(severity, category, description, tags_list) ==
    SeverityActions(severity) \o MfaActions(category, description, tags_list)
        \o ExposureActions(category) \o <<Act.review>>

\* the summary of a row; the text "\n".join(summary_lines) is carried by its
\* parts, the optional sections as lists of no or one entry
SummaryOf(row) ==
    LET title == TitleOf(row)
        description == CellOr(row.description, << >>)
        severity == Lower(CellOr(row.severity, Txt.unknown))
        status == Title(CellOr(row.status, Txt.unknown))
        category == CellOr(row.category, Txt.general)
        business_impact == CellOr(row.business_impact, "Not specified")
        root_cause == CellOr(row.root_cause, "Undetermined")
        resolution == CellOr(row.resolution, "In progress")
        risk_score_float == NumberOr(row.risk_score, FInt(0))
        affected_users_int == NumberOr(row.affected_users, 0)
        rt_hours_float == NumberOr(row.resolution_time_hours, FInt(0))
    IN  [title |-> title,
         severity |-> Title(severity),
         severity_text |-> SeverityText(severity),
         status |-> status,
         category |-> category,
         created |-> row.created_at.v,
         affected_users |-> affected_users_int,
         resolution_time |-> rt_hours_float,
         risk |-> risk_score_float,
         risk_band |-> RiskBand(risk_score_float),
         business_impact |-> business_impact,
         context |-> IF description # << >> THEN <<description>> ELSE << >>,
         root_cause |-> IF root_cause # "" /\ root_cause # "Undetermined"
                        THEN <<root_cause>> ELSE << >>,
         actions_taken |-> IF resolution # "" /\ resolution # "In progress"
                           THEN <<resolution>> ELSE << >>,
         suggestions |-> Suggestions(severity, category, description, TagsList(row))]

IncidentNotFound == [status |-> 404, error |-> "Incident not found"]

\* the body of generate_ai_summary once the query has returned
SummaryResult(row, today) ==
    IF ~row.found THEN IncidentNotFound
    ELSE [status |-> 200, summary |-> SummaryOf(row), generated_at |-> today]

\* GET /api/ai-summary/<incident_id>
generate_ai_summary ==
    /\ Idle
    /\ \/ /\ ~client
          /\ request' = [op |-> "summary", days |-> NoDays, query |-> "not_run"]
          /\ response' = ClientUnavailable
       \/ /\ client
          /\ request' = [op |-> "summary", days |-> NoDays, query |-> "failed"]
          /\ response' = QueryFailed
       \/ /\ client
          /\ request' = [op |-> "summary", days |-> NoDays, query |-> "ok"]
          /\ response' = SummaryResult(incident, now)
    /\ UNCHANGED <<client, now, incidents, incident, evidence, feedback, workers, heap>>

\* ---------------------------------------------------------------------
\* POST /api/playbook/<incident_id>
\* ---------------------------------------------------------------------
\* the columns of a playbook step
Cols == {"step", "owner", "eta_hours", "priority", "tooling"}

\* what AI.GENERATE_TABLE can do: raise, or return a table with some columns and
\* some rows; the model's tables have no, one or eight rows, and all the
\* columns, one column short, or one column more
AiRaises == [raises |-> TRUE, columns |-> {}, rows |-> << >>]
AiColumnSets == {Cols, Cols \ {"tooling"}, Cols \cup {"notes"}}
AiLengths == {0, 1, 8}
AiRow(columns, i) ==
    [c \in columns |-> IF c = "eta_hours" THEN i ELSE IF c = "priority" THEN "P2" ELSE c]
AiTable(columns, n) ==
    [raises |-> FALSE, columns |-> columns, rows |-> [i \in 1..n |-> AiRow(columns, i)]]
AiOutcomes ==
    {AiRaises} \cup {AiTable(columns, n) : columns \in AiColumnSets, n \in AiLengths}

\* df.empty
AiEmpty(ai) == Len(ai.rows) = 0

\* faulty variant: an empty table is taken for a playbook
GeneratedNoEmptyCheck(ai) == ~ai.raises

\* the generative call gave a playbook: it did not raise and the table has rows
Generated(ai) == ~ai.raises /\ ~AiEmpty(ai)

\* the table with exactly the five columns, '' where the table had none
NormalizeColumns(ai) ==
    [i \in 1..Len(ai.rows) |->
        [c \in Cols |-> IF c \in ai.columns THEN ai.rows[i][c] ELSE ""]]

\* the outcomes of the follow-up lookup of severity and category
Lookups == {"failed", "ok"}

\* the severity and the category the fallback works with: the stored cells, or
\* 'medium' and 'general' when the lookup failed or found no row
LookupSeverity(lookup, row) ==
    IF lookup = "ok" /\ row.found THEN row.severity ELSE Val(Txt.medium)
LookupCategory(lookup, row) ==
    IF lookup = "ok" /\ row.found THEN row.category ELSE Val(Txt.general)

\* the base template (the source writes the hyphens of 'Post-incident' and
\* 're-verification' as U+2011)
Step(step, owner, eta_hours, priority, tooling) ==
    [step |-> step, owner |-> owner, eta_hours |-> eta_hours,
     priority |-> priority, tooling |-> tooling]
Base ==
    << Step("Establish incident channel and assign roles", "IR Lead", 1, "P1", "Chat/ITSM"),
       Step("Contain affected accounts/systems", "SecOps", 2, "P1", "EDR/IAM"),
       Step("Collect evidence and snapshot logs", "SecOps", 2, "P2", "SIEM/EDR"),
       Step("Root cause analysis and scope", "IR Lead", 4, "P2", "SIEM"),
       Step("Remediate misconfigurations/rotate secrets", "IAM Admin", 3, "P2", "IAM/Secrets"),
       Step("User comms and awareness", "IT Comms", 2, "P3", "Email/LMS"),
       Step("Post-incident review and lessons learned", "IR Lead", 2, "P3", "Docs/ITSM") >>

\* isinstance(sev, str) and sev.lower() == 'critical': base[1] is tightened
OverrideCritical(base, sev) ==
    IF sev.kind = "value" /\ Lower(sev.v) = Txt.critical
    THEN [base EXCEPT ![2].eta_hours = 1, ![2].priority = "P1"]
    ELSE base

MfaStep == Step("Force password reset & MFA re-verification", "IAM Admin", 1, "P1", "IAM")

\* isinstance(category, str) and 'authentication' in category: base.insert(1, ...)
InsertAuthentication(base, category) ==
    IF category.kind = "value" /\ Contains(category.v, Txt.authentication)
    THEN <<base[1], MfaStep>> \o SubSeq(base, 2, Len(base))
    ELSE base

\* faulty variant: nothing is cut off
FirstSevenAll(base) == base

\* base[:7]
FirstSeven(base) == SubSeq(base, 1, Min2(7, Len(base)))

\* faulty variant: the override is applied after the insertion
FallbackPlaybookOverrideLast(sev, category) ==
    FirstSeven(OverrideCritical(InsertAuthentication(Base, category), sev))

FallbackPlaybook(sev, category) ==
    FirstSeven(InsertAuthentication(OverrideCritical(Base, sev), category))

PlaybookResult(ai, lookup, row) ==
    IF Generated(ai)
    THEN [status |-> 200, playbook |-> NormalizeColumns(ai), provider |-> "vertex-ai"]
    ELSE [status |-> 200,
          playbook |-> FallbackPlaybook(LookupSeverity(lookup, row),
                                        LookupCategory(lookup, row)),
          provider |-> "fallback"]

\* faulty variant: the fallback playbook is logged in the feedback table
generate_playbook_logged ==
    /\ Idle
    /\ client
    /\ Len(evidence) + Len(feedback) < MaxWrites
    /\ request' = [op |-> "playbook", days |-> NoDays, query |-> "ok",
                   ai |-> AiRaises, lookup |-> "ok"]
    /\ response' = PlaybookResult(AiRaises, "ok", incident)
    /\ feedback' = Append(feedback, [reviewer |-> "playbook"])
    /\ UNCHANGED <<client, now, incidents, incident, evidence, workers, heap>>

generate_playbook ==
    /\ Idle
    /\ \/ /\ ~client
          /\ request' = [op |-> "playbook", days |-> NoDays, query |-> "not_run",
                         ai |-> AiRaises, lookup |-> "not_run"]
          /\ response' = ClientUnavailable
       \/ /\ client
          /\ \E ai \in AiOutcomes :
                \E lookup \in IF Generated(ai) THEN {"not_run"} ELSE Lookups :
                    /\ request' = [op |-> "playbook", days |-> NoDays, query |-> "ok",
                                   ai |-> ai, lookup |-> lookup]
                    /\ response' = PlaybookResult(ai, lookup, incident)
    /\ UNCHANGED <<client, now, incidents, incident, evidence, feedback, workers, heap>>
\* ---------------------------------------------------------------------
\* SQL expressions.  A SQL condition has three values: "T", "F" and "N" (NULL).
\* ---------------------------------------------------------------------
\* a OR b
SqlOr(a, b) ==
    IF a = "T" \/ b = "T" THEN "T" ELSE IF a = "N" \/ b = "N" THEN "N" ELSE "F"

\* cell = literal
SqlEq(cell, literal) == IF cell.kind = "null" THEN "N" ELSE IF cell.v = literal THEN "T" ELSE "F"

\* literal IN UNNEST(cell): a NULL array unnests to no rows
SqlInUnnest(literal, cell) ==
    IF cell.kind = "null" THEN "F"
    ELSE IF \E k \in 1..Len(cell.v) : cell.v[k] = literal THEN "T" ELSE "F"

RECURSIVE LikeFrom(_, _, _, _)
\* text[i..] LIKE pattern[j..]: '%' stands for any run of characters, '_' for
\* any one character (backslash escapes are not modelled)
LikeFrom(text, pattern, i, j) ==
    IF j > Len(pattern) THEN i > Len(text)
    ELSE IF pattern[j] = "%"
         THEN \/ LikeFrom(text, pattern, i, j + 1)
              \/ i <= Len(text) /\ LikeFrom(text, pattern, i + 1, j)
    ELSE /\ i <= Len(text)
         /\ pattern[j] = "_" \/ pattern[j] = text[i]
         /\ LikeFrom(text, pattern, i + 1, j + 1)

\* LOWER(cell) LIKE '%<inner>%'
SqlLowerLike(cell, inner) ==
    IF cell.kind = "null" THEN "N"
    ELSE IF LikeFrom(Lower(cell.v), <<"%">> \o inner \o <<"%">>, 1, 1) THEN "T" ELSE "F"

\* ---------------------------------------------------------------------
\* GET /api/compliance-check/<incident_id>
\* ---------------------------------------------------------------------

\* WHEN '<key>' IN UNNEST(i.tags) OR LOWER(i.description) LIKE '%<key>%'
PolicyRule(row, key) ==
    SqlOr(SqlInUnnest(key, row.tags), SqlLowerLike(row.description, key)) = "T"

\* faulty variant: the SaaS rule is tried before the MFA rule
ApplicablePolicySaasFirst(row) ==
    IF PolicyRule(row, Txt.saas) THEN "SaaS Usage Policy"
    ELSE IF PolicyRule(row, Txt.mfa) THEN "MFA Policy"
    ELSE IF PolicyRule(row, Txt.access) THEN "Access Control Policy"
    ELSE "General Security Policy"

\* CASE ... END AS applicable_policy: the first WHEN whose condition is TRUE
ApplicablePolicy(row) ==
    IF PolicyRule(row, Txt.mfa) THEN "MFA Policy"
    ELSE IF PolicyRule(row, Txt.saas) THEN "SaaS Usage Policy"
    ELSE IF PolicyRule(row, Txt.access) THEN "Access Control Policy"
    ELSE "General Security Policy"

\* faulty variant: a very high risk score raises the assessment
ComplianceAssessmentByRisk(row) ==
    IF SqlEq(row.severity, Txt.critical) = "T"
       \/ (row.risk_score.kind = "value" /\ FLe(Frac(9, 10), row.risk_score.v))
    THEN "High Risk - Immediate Action Required"
    ELSE IF SqlEq(row.severity, Txt.high) = "T" THEN "High Risk - Escalate to Senior Team"
    ELSE IF SqlEq(row.severity, Txt.medium) = "T" THEN "Medium Risk - Standard Response"
    ELSE IF SqlEq(row.severity, Txt.low) = "T" THEN "Low Risk - Monitor and Document"
    ELSE "Minimal Risk - Routine Handling"

\* CASE ... END AS compliance_assessment
ComplianceAssessment(row) ==
    IF SqlEq(row.severity, Txt.critical) = "T" THEN "High Risk - Immediate Action Required"
    ELSE IF SqlEq(row.severity, Txt.high) = "T" THEN "High Risk - Escalate to Senior Team"
    ELSE IF SqlEq(row.severity, Txt.medium) = "T" THEN "Medium Risk - Standard Response"
    ELSE IF SqlEq(row.severity, Txt.low) = "T" THEN "Low Risk - Monitor and Document"
    ELSE "Minimal Risk - Routine Handling"

\* the body of check_compliance once the query has returned
ComplianceResult(row, today) ==
    IF ~row.found THEN IncidentNotFound
    ELSE [status |-> 200,
          applicable_policy |-> ApplicablePolicy(row),
          compliance_assessment |-> ComplianceAssessment(row),
          severity |-> row.severity,
          tags |-> TagsList(row),
          checked_at |-> today]

\* the stored array of a tags cell whose Python value is no list is not
\* modelled; the endpoint is modelled for the other rows
check_compliance ==
    /\ Idle
    /\ incident.found => incident.tags.kind # "other"
    /\ \/ /\ ~client
          /\ request' = [op |-> "compliance", days |-> NoDays, query |-> "not_run"]
          /\ response' = ClientUnavailable
       \/ /\ client
          /\ request' = [op |-> "compliance", days |-> NoDays, query |-> "failed"]
          /\ response' = QueryFailed
       \/ /\ client
          /\ request' = [op |-> "compliance", days |-> NoDays, query |-> "ok"]
          /\ response' = ComplianceResult(incident, now)
    /\ UNCHANGED <<client, now, incidents, incident, evidence, feedback, workers, heap>>

\* ---------------------------------------------------------------------
\* Roles (get_user_role, whoami)
\* ---------------------------------------------------------------------

\* str.strip(): the text without its leading and trailing blanks
Strip(text) ==
    LET inked == {k \in 1..Len(text) : text[k] # " "}
    IN  IF inked = {} THEN << >>
        ELSE SubSeq(text, CHOOSE k \in inked : \A j \in inked : k <= j,
                          CHOOSE k \in inked : \A j \in inked : k >= j)

\* the places a request can name a role in: the X-User-Role header, the
\* user_role cookie and the role query argument, each Null when absent
RoleSources ==
    [header :
        {Null, Val(<< >>), Val(<<" ">>), Val(<<" ", "A", "d", "m", "i", "n", " ">>), Val(Txt.analyst),
         Val(<<"r", "o", "o", "t">>)}, cookie :
        {Null, Val(Txt.admin), Val(<<"V", "I", "E", "W", "E", "R">>)}, arg :
        {Null, Val(Txt.analyst), Val(<<"s", "u", "p", "e", "r", "a", "d", "m", "i", "n">>)}]

\* the sources of the requests to the writing endpoints
WriterSources ==
    {s \in RoleSources :
        \/ s.cookie = Null /\ s.arg = Null
        \/ s.header = Null /\ s.cookie = Val(Txt.admin) /\ s.arg = Null
        \/ s.header = Null /\ s.cookie = Null /\ s.arg = Val(Txt.analyst)}

\* a value Python's `or` passes over: None or ''
Falsy(cell) == cell.kind # "value" \/ cell.v = << >>

\* faulty variant: the cookie is asked before the header
GetUserRoleCookieFirst(sources) ==
    LET raw == IF ~Falsy(sources.cookie) THEN sources.cookie.v
               ELSE IF ~Falsy(sources.header) THEN sources.header.v
               ELSE IF ~Falsy(sources.arg) THEN sources.arg.v
               ELSE Txt.viewer
        role == Lower(Strip(raw))
    IN  IF role \notin {Txt.viewer, Txt.analyst, Txt.admin} THEN Txt.viewer ELSE role

\* get_user_role
GetUserRole(sources) ==
    LET raw == IF ~Falsy(sources.header) THEN sources.header.v
               ELSE IF ~Falsy(sources.cookie) THEN sources.cookie.v
               ELSE IF ~Falsy(sources.arg) THEN sources.arg.v
               ELSE Txt.viewer
        role == Lower(Strip(raw))
    IN  IF role \notin {Txt.viewer, Txt.analyst, Txt.admin} THEN Txt.viewer ELSE role

\* capabilities.get(role, ['read'])
Capabilities(role) ==
    IF role = Txt.viewer THEN <<"read">>
    ELSE IF role = Txt.analyst
    THEN <<"read", "write_evidence", "generate_playbook", "feedback">>
    ELSE IF role = Txt.admin
    THEN <<"read", "write_evidence", "generate_playbook", "feedback", "admin">>
    ELSE <<"read">>

\* GET /api/rbac/me
whoami ==
    /\ Idle
    /\ \E sources \in RoleSources :
          /\ request' = [op |-> "whoami", days |-> NoDays, query |-> "not_run",
                         sources |-> sources]
          /\ response' = [status |-> 200, role |-> GetUserRole(sources),
                          capabilities |-> Capabilities(GetUserRole(sources))]
    /\ UNCHANGED <<client, now, incidents, incident, evidence, feedback, workers, heap>>

\* ---------------------------------------------------------------------
\* Writing endpoints (evidence_endpoint, submit_feedback)
\* ---------------------------------------------------------------------
\* a key the JSON payload does not have
Absent == [kind |-> "absent", v |-> 0]

\* request.get_json(force=True) raises on a body that is no JSON
BadJson == [parses |-> FALSE]

\* the outcomes of client.insert_rows_json: it raises, it returns errors, or it
\* returns [] and the row is in the table

Forbidden(role) ==
    [status |-> 403, error |-> "forbidden", message |-> "Insufficient role", role |-> role]
InsertFailed == [status |-> 500, error |-> "insert_failed"]

\* payload.get(key) or default, for a text the handler copies and for one it
\* inspects
GetOr(cell, default) == IF cell.kind = "value" /\ cell.v # "" THEN cell.v ELSE default
GetTextOr(cell, default) == IF Falsy(cell) THEN default ELSE cell.v

EvidencePayloads ==
    {BadJson,
     [parses |-> TRUE, object_type |-> Absent, uploader |-> Absent],
     [parses |-> TRUE, object_type |-> Val(<<"L", "O", "G">>), uploader |-> Val("alice")]}

\* row (the evidence_id is a fresh uuid4 when the payload names none)
EvidenceRow(payload, today) ==
    [object_type |-> Lower(GetTextOr(payload.object_type, <<"g", "e", "n", "e", "r", "i", "c">>)),
     uploader |-> GetOr(payload.uploader, "web-user"),
     created_at |-> today]

\* role in {'analyst', 'admin'}
MayWriteEvidence(role) == role \in {Txt.analyst, Txt.admin}

\* /api/evidence/<incident_id>, GET and POST
evidence_endpoint ==
    /\ Idle
    /\ \E sources \in WriterSources, method \in {"GET", "POST"} :
          LET req(query) == [op |-> "evidence", days |-> NoDays, query |-> query,
                             sources |-> sources, method |-> method]
              role == GetUserRole(sources)
          IN  \/ /\ ~client
                 /\ request' = req("not_run")
                 /\ response' = ClientUnavailable
                 /\ UNCHANGED evidence
              \/ /\ client
                 /\ method = "GET"
                 /\ \/ /\ request' = req("ok")
                       /\ response' = [status |-> 200, evidence |-> evidence]
                    \/ /\ request' = req("failed")
                       /\ response' = [status |-> 200, evidence |-> <<"mock-1">>,
                                       mock |-> TRUE]
                 /\ UNCHANGED evidence
              \/ /\ client
                 /\ method = "POST"
                 /\ ~MayWriteEvidence(role)
                 /\ request' = req("not_run")
                 /\ response' = Forbidden(role)
                 /\ UNCHANGED evidence
              \/ /\ client
                 /\ method = "POST"
                 /\ MayWriteEvidence(role)
                 /\ \E payload \in EvidencePayloads, outcome \in {"raises", "errors", "ok"} :
                       \/ /\ ~payload.parses
                          /\ request' = req("not_run")
                          /\ response' = QueryFailed
                          /\ UNCHANGED evidence
                       \/ /\ payload.parses
                          /\ outcome = "raises"
                          /\ request' = req("failed")
                          /\ response' = QueryFailed
                          /\ UNCHANGED evidence
                       \/ /\ payload.parses
                          /\ outcome = "errors"
                          /\ request' = req("failed")
                          /\ response' = InsertFailed
                          /\ UNCHANGED evidence
                       \/ /\ payload.parses
                          /\ outcome = "ok"
                          /\ Len(evidence) + Len(feedback) < MaxWrites
                          /\ request' = req("ok")
                          /\ response' = [status |-> 200, ok |-> TRUE]
                          /\ evidence' = Append(evidence, EvidenceRow(payload, now))
    /\ UNCHANGED <<client, now, incidents, incident, feedback, workers, heap>>

\* clamp_int(v, lo=1, hi=5) of payload.get(key, 3): lo when int(v) raises
ClampInt(cell) ==
    IF cell.kind = "absent" THEN 3
    ELSE IF cell.kind = "value" THEN Max2(1, Min2(5, cell.v))
    ELSE 1

FeedbackPayloads ==
    {BadJson,
     [parses |-> TRUE, quality_rating |-> Absent, accuracy_rating |-> Absent,
      usefulness_rating |-> Absent, reviewer |-> Absent],
     [parses |-> TRUE, quality_rating |-> Val(9), accuracy_rating |-> Val(0),
      usefulness_rating |-> Junk, reviewer |-> Val("alice")],
     [parses |-> TRUE, quality_rating |-> Val(4), accuracy_rating |-> Null,
      usefulness_rating |-> Val(-1), reviewer |-> Val("")]}

FeedbackRow(payload, today) ==
    [quality_rating |-> ClampInt(payload.quality_rating),
     accuracy_rating |-> ClampInt(payload.accuracy_rating),
     usefulness_rating |-> ClampInt(payload.usefulness_rating),
     reviewer |-> GetOr(payload.reviewer, "anonymous"),
     feedback_timestamp |-> today]

\* POST /api/feedback
submit_feedback ==
    /\ Idle
    /\ \E sources \in WriterSources :
          LET req(query) == [op |-> "feedback", days |-> NoDays, query |-> query,
                             sources |-> sources, method |-> "POST"]
          IN  \/ /\ ~client
                 /\ request' = req("not_run")
                 /\ response' = ClientUnavailable
                 /\ UNCHANGED feedback
              \/ /\ client
                 /\ \E payload \in FeedbackPayloads, outcome \in {"raises", "errors", "ok"} :
                       \/ /\ ~payload.parses
                          /\ request' = req("not_run")
                          /\ response' = QueryFailed
                          /\ UNCHANGED feedback
                       \/ /\ payload.parses
                          /\ outcome = "raises"
                          /\ request' = req("failed")
                          /\ response' = QueryFailed
                          /\ UNCHANGED feedback
                       \/ /\ payload.parses
                          /\ outcome = "errors"
                          /\ request' = req("failed")
                          /\ response' = InsertFailed
                          /\ UNCHANGED feedback
                       \/ /\ payload.parses
                          /\ outcome = "ok"
                          /\ Len(evidence) + Len(feedback) < MaxWrites
                          /\ request' = req("ok")
                          /\ response' = [status |-> 200, ok |-> TRUE]
                          /\ feedback' = Append(feedback, FeedbackRow(payload, now))
    /\ UNCHANGED <<client, now, incidents, incident, evidence, workers, heap>>

\* ---------------------------------------------------------------------
\* GET /api/similar-incidents
\* ---------------------------------------------------------------------
\* LIMIT top_k, LIMIT 5
TopK == 5

\* the titles and descriptions of the rows of the incidents table, in the order
\* of their creation
Catalog ==
    << [title |-> Val(<<"V", "P", "N", " ", "o", "u", "t", "a", "g", "e">>),
        description |-> Val(<<"u", "s", "e", "r", "s", " ", "l", "o", "c", "k", "e", "d", " ", "o", "u", "t">>)],
       [title |-> Val(<<"L", "o", "g", "i", "n", " ", "f", "a", "i", "l", "u", "r", "e", "s">>),
        description |-> Val(<<"v", "p", "n", " ", "d", "o", "w", "n">>)],
       [title |-> Null,
        description |-> Val(<<"V", "p", "n", " ", "t", "u", "n", "n", "e", "l", " ", "r", "e", "s", "e", "t">>)],
       [title |-> Val(<<"v", "p", "n">>),
        description |-> Null],
       [title |-> Val(<<"P", "h", "i", "s", "h", "i", "n", "g">>),
        description |-> Val(<<"v", "a", "n", " ", "s", "t", "o", "l", "e", "n">>)],
       [title |-> Null,
        description |-> Null],
       [title |-> Val(<<"L", "a", "p", "t", "o", "p", " ", "l", "o", "s", "t">>),
        description |-> Val(<<"n", "o", " ", "V", "P", "N", " ", "c", "l", "i", "e", "n", "t">>)],
       [title |-> Val(<<"v", "p", "n", " ", "c", "e", "r", "t", "i", "f", "i", "c", "a", "t", "e", " ", "e", "x", "p", "i", "r", "e", "d">>),
        description |-> Val(<< >>)] >>

\* the titles and descriptions of a table with that many rows
CatalogOf(table) ==
    SubSeq(Catalog, 1, Min2(RowsUpTo(table, MaxDay), Len(Catalog)))

\* request.args.get('query', ''): no argument, an empty one, or a text
QueryText(cell) == IF cell.kind = "null" THEN << >> ELSE cell.v

\* LOWER(title) LIKE '%{query_text.lower()}%' OR LOWER(description) LIKE '%...%'
KeywordCondition(row, query_text) ==
    SqlOr(SqlLowerLike(row.title, Lower(query_text)),
          SqlLowerLike(row.description, Lower(query_text)))

\* CASE WHEN ... THEN 0.9 ELSE 0.3 END, in hundredths
KeywordScore(row, query_text) ==
    IF KeywordCondition(row, query_text) = "T" THEN 90 ELSE 30


\* the rows that pass the WHERE clause
KeywordCandidates(catalog, query_text) ==
    {i \in 1..Len(catalog) : KeywordCondition(catalog[i], query_text) = "T"}

\* the sets of rows ORDER BY similarity_score DESC LIMIT k may return: k of the
\* candidates (all when there are fewer), none passed over for a lower score;
\* the order among equal scores is open, so the results are carried as a set
Limited(candidates, score, k) ==
    {S \in SUBSET candidates :
        /\ Cardinality(S) = Min2(k, Cardinality(candidates))
        /\ \A i \in S, j \in candidates \ S : score[i] >= score[j]}

\* the sets of results the keyword query may return
KeywordResults(catalog, query_text) ==
    LET score == [i \in 1..Len(catalog) |-> KeywordScore(catalog[i], query_text)]
    IN  {{[incident_id |-> i, similarity_score |-> score[i]] : i \in S} :
            S \in Limited(KeywordCandidates(catalog, query_text), score, TopK)}

\* the sets of results the embedding query may return: any top_k rows, their
\* cosine scores not modelled
SemanticResults(catalog) ==
    LET score == [i \in 1..Len(catalog) |-> 0]
    IN  {{[incident_id |-> i, similarity_score |-> "cosine"] : i \in S} :
            S \in Limited(1..Len(catalog), score, TopK)}

\* the answer of the semantic attempt, df.empty apart
SemanticAnswer(text, results) ==
    IF results = {}
    THEN [status |-> 200, message |-> "No similar incidents found", results |-> {}]
    ELSE [status |-> 200, query |-> text, results |-> results]

\* faulty variant: the keyword answer does not say that it is the fallback
KeywordAnswerUnmarked(text, results) ==
    [status |-> 200, query |-> text, results |-> results]

\* the answer of the keyword attempt
KeywordAnswer(text, results) ==
    [status |-> 200, query |-> text, results |-> results, fallback |-> TRUE]

QueryTextRequired == [status |-> 400, error |-> "Query text is required"]

\* the request, with the warehouse queries it has made, in order
SimilarRequest(cell, attempts) ==
    [op |-> "similar", days |-> NoDays,
     query |-> IF attempts = << >> THEN "not_run"
               ELSE IF attempts[Len(attempts)].ok THEN "ok" ELSE "failed",
     text |-> cell, attempts |-> attempts]
Attempt(kind, ok) == [kind |-> kind, ok |-> ok]

find_similar_incidents ==
    /\ Idle
    /\ \E cell \in
          {Null, Val(<< >>), Val(<<"v", "p", "n">>), Val(<<"V", "P", "N">>), Val(<<"v", "_", "n">>),
           Val(<<"%">>), Val(<<"z", "z", "z">>)} :
          LET query_text == QueryText(cell)
              catalog == CatalogOf(incidents)
          IN  \/ /\ ~client
                 /\ request' = SimilarRequest(cell, << >>)
                 /\ response' = ClientUnavailable
              \/ /\ client
                 /\ query_text = << >>
                 /\ request' = SimilarRequest(cell, << >>)
                 /\ response' = QueryTextRequired
              \/ /\ client
                 /\ query_text # << >>
                 /\ \E results \in SemanticResults(catalog) :
                       /\ request' = SimilarRequest(cell, <<Attempt("semantic", TRUE)>>)
                       /\ response' = SemanticAnswer(query_text, results)
              \/ /\ client
                 /\ query_text # << >>
                 /\ \E results \in KeywordResults(catalog, query_text) :
                       /\ request' = SimilarRequest(cell, <<Attempt("semantic", FALSE),
                                                           Attempt("keyword", TRUE)>>)
                       /\ response' = KeywordAnswer(query_text, results)
              \/ /\ client
                 /\ query_text # << >>
                 /\ request' = SimilarRequest(cell, <<Attempt("semantic", FALSE),
                                                     Attempt("keyword", FALSE)>>)
                 /\ response' = QueryFailed
    /\ UNCHANGED <<client, now, incidents, incident, evidence, feedback, workers, heap>>

\* ---------------------------------------------------------------------
\* The fallback of generate_playbook, statement by statement, for requests
\* served at the same time.  A list the handler creates is an object on the
\* heap; the handler holds a reference to it and changes it in place.
\* ---------------------------------------------------------------------

IdleWorker ==
    [pc |-> "idle", sev |-> Val(Txt.medium), category |-> Val(Txt.general), base |-> 0,
     playbook |-> << >>]

\* the references held by the requests in progress
LiveRefs(ws) == {ws[w].base : w \in {v \in DOMAIN ws : ws[v].pc # "idle"}}

\* faulty variant: base is one module-level list, shared by every request
SharedList(ws) == 1

\* base = [...]: the list display creates a new object, one no request in
\* progress holds
NewList(ws) ==
    CHOOSE r \in (1..MaxWorkers) :
        r \notin LiveRefs(ws) /\ \A q \in 1..(r - 1) : q \in LiveRefs(ws)

\* except Exception: ... sev, category (lines 477-489)
playbook_lookup ==
    \E w \in (1..MaxWorkers), sev \in {Val(Txt.critical), Val(Txt.medium)},
       category \in {Val(Txt.authentication), Val(Txt.general)} :
        /\ workers[w].pc = "idle"
        /\ workers' = [workers EXCEPT ![w] = [IdleWorker EXCEPT !.pc = "base", !.sev = sev,
                                                                 !.category = category]]
        /\ UNCHANGED <<client, now, incidents, incident, request, response, evidence,
                       feedback, heap>>

\* base = [...] (lines 491-499)
playbook_base ==
    \E w \in (1..MaxWorkers) :
        /\ workers[w].pc = "base"
        /\ LET ref == NewList([workers EXCEPT ![w].pc = "idle"])
           IN  /\ heap' = [heap EXCEPT ![ref] = Base]
               /\ workers' = [workers EXCEPT ![w].pc = "override", ![w].base = ref]
        /\ UNCHANGED <<client, now, incidents, incident, request, response, evidence,
                       feedback>>

\* if ... sev.lower() == 'critical': base[1][...] = ... (lines 500-502)
playbook_override ==
    \E w \in (1..MaxWorkers) :
        /\ workers[w].pc = "override"
        /\ heap' = [heap EXCEPT ![workers[w].base] = OverrideCritical(@, workers[w].sev)]
        /\ workers' = [workers EXCEPT ![w].pc = "insert"]
        /\ UNCHANGED <<client, now, incidents, incident, request, response, evidence,
                       feedback>>

\* if ... 'authentication' in category: base.insert(1, ...) (lines 503-504)
playbook_insert ==
    \E w \in (1..MaxWorkers) :
        /\ workers[w].pc = "insert"
        /\ heap' = [heap EXCEPT ![workers[w].base] =
                                    InsertAuthentication(@, workers[w].category)]
        /\ workers' = [workers EXCEPT ![w].pc = "slice"]
        /\ UNCHANGED <<client, now, incidents, incident, request, response, evidence,
                       feedback>>

\* playbook = base[:7] (line 505)
playbook_slice ==
    \E w \in (1..MaxWorkers) :
        /\ workers[w].pc = "slice"
        /\ workers' = [workers EXCEPT ![w].pc = "return",
                                      ![w].playbook = FirstSeven(heap[workers[w].base])]
        /\ UNCHANGED <<client, now, incidents, incident, request, response, evidence,
                       feedback, heap>>

\* return jsonify(...) (line 506); the list is garbage from here on
playbook_return ==
    \E w \in (1..MaxWorkers) :
        /\ workers[w].pc = "return"
        /\ workers' = [workers EXCEPT ![w] = IdleWorker]
        /\ UNCHANGED <<client, now, incidents, incident, request, response, evidence,
                       feedback, heap>>


\* ---------------------------------------------------------------------
\* The system
\* ---------------------------------------------------------------------
\* the days on which a request may arrive: the last day of the table, and a day
\* late enough for the 60-day window to cut off the first rows
Todays == {MaxDay, WindowDays + 2}

\* the tables of the model: at most MaxPerDay rows a day, MaxIncidents in all
Tables == {t \in [Days -> 0..MaxPerDay] : RowsUpTo(t, MaxDay) <= MaxIncidents}

Init ==
    /\ client \in BOOLEAN
    /\ now \in Todays
    /\ incidents \in Tables
    /\ incident = NotFound
    /\ request = NoRequest
    /\ response = NoResponse
    /\ evidence = << >>
    /\ feedback = << >>
    /\ workers = << >>
    /\ heap = << >>

\* the response is sent (jsonify) and the exchange ends
send_response ==
    /\ ~Idle
    /\ request' = NoRequest
    /\ response' = NoResponse
    /\ UNCHANGED <<client, now, incidents, incident, evidence, feedback, workers, heap>>

Next == anomalies_incidents \/ forecast_incidents \/ send_response

Spec == Init /\ [][Next]_vars

\* the incident endpoints, over the rows of the model; the analytics endpoints
\* read only the daily counts, which are held fixed here
InitIncident ==
    /\ client \in BOOLEAN
    /\ now = MaxDay
    /\ incidents = [d \in Days |-> IF d = MaxDay THEN 1 ELSE 0]
    /\ incident \in Rows \cup {NotFound}
    /\ request = NoRequest
    /\ response = NoResponse
    /\ evidence = << >>
    /\ feedback = << >>
    /\ workers = << >>
    /\ heap = << >>

NextIncident ==
    generate_ai_summary \/ generate_playbook \/ check_compliance \/ send_response

SpecIncident == InitIncident /\ [][NextIncident]_vars

\* every endpoint of the model but the search, over a few tables and rows, with
\* the two tables the service writes to

InitService ==
    /\ client \in BOOLEAN
    /\ now = MaxDay
    /\ incidents \in
          {[d \in Days |-> 0], [d \in Days |-> IF d = 0 \/ d = MaxDay THEN 1 ELSE 0]}
    /\ incident \in
          {NotFound, SampleRow,
          [SampleRow EXCEPT !.severity = Val(Txt.critical),
          !.category = Val(Txt.authentication \o <<"_">> \o Txt.mfa)]}
    /\ request = NoRequest
    /\ response = NoResponse
    /\ evidence = << >>
    /\ feedback = << >>
    /\ workers = << >>
    /\ heap = << >>

NextService ==
    \/ anomalies_incidents
    \/ forecast_incidents
    \/ generate_ai_summary
    \/ generate_playbook
    \/ check_compliance
    \/ whoami
    \/ evidence_endpoint
    \/ submit_feedback
    \/ send_response

SpecService == InitService /\ [][NextService]_vars

\* the search endpoint, over tables of 0, MaxPerDay, 2 * MaxPerDay, ... rows

InitSimilar ==
    /\ client \in BOOLEAN
    /\ now = MaxDay
    /\ incidents \in
          {[d \in Days |-> IF d < k THEN MaxPerDay ELSE 0] : k \in 0..(MaxDay - 1)}
    /\ incident = NotFound
    /\ request = NoRequest
    /\ response = NoResponse
    /\ evidence = << >>
    /\ feedback = << >>
    /\ workers = << >>
    /\ heap = << >>

NextSimilar == find_similar_incidents \/ send_response

SpecSimilar == InitSimilar /\ [][NextSimilar]_vars

\* playbook requests served at the same time, each in its fallback
InitWorkers ==
    /\ client = TRUE
    /\ now = MaxDay
    /\ incidents = [d \in Days |-> 0]
    /\ incident = NotFound
    /\ request = NoRequest
    /\ response = NoResponse
    /\ evidence = << >>
    /\ feedback = << >>
    /\ workers = [w \in (1..MaxWorkers) |-> IdleWorker]
    /\ heap = [r \in (1..MaxWorkers) |-> << >>]

NextWorkers ==
    \/ playbook_lookup
    \/ playbook_base
    \/ playbook_override
    \/ playbook_insert
    \/ playbook_slice
    \/ playbook_return

SpecWorkers == InitWorkers /\ [][NextWorkers]_vars


\* ---------------------------------------------------------------------
\* Properties
\* ---------------------------------------------------------------------
\* the observations the aggregation yields in the current state
Observed == {d \in Days : incidents[d] > 0 /\ d >= now - WindowDays}
FirstObserved == CHOOSE d \in Observed : \A e \in Observed : d <= e
LastObserved == CHOOSE d \in Observed : \A e \in Observed : d >= e

\* the anomaly endpoint has answered from a non-empty aggregation
AnomaliesAnswered ==
    /\ request.op = "anomalies"
    /\ request.query = "ok"
    /\ Observed # {}

\* C1: for a non-empty set of daily observations the gap-filled series has
\* exactly one entry for every calendar day from the earliest to the latest
\* observed date, in ascending date order, so its length is
\* (max_date - min_date) + 1.
C1_SeriesCoversRange ==
    AnomaliesAnswered =>
        /\ response.status = 200
        /\ Len(response.series) = (LastObserved - FirstObserved) + 1
        /\ \A d \in FirstObserved..LastObserved :
              Cardinality({i \in 1..Len(response.series) :
                              response.series[i].date = d}) = 1
        /\ \A i \in 1..(Len(response.series) - 1) :
              response.series[i].date < response.series[i + 1].date

\* a series that spans a gap: a day inside the range has no observation
C1_Witness ==
    /\ AnomaliesAnswered
    /\ response.status = 200
    /\ Len(response.series) >= 4
    /\ \E d \in FirstObserved..LastObserved : d \notin Observed

\* C2: in the gap-filled series every observed date keeps exactly its observed
\* count and every other date of the range has count 0.
C2_CountsKept ==
    AnomaliesAnswered =>
        \A i \in 1..Len(response.series) :
            LET e == response.series[i]
            IN  IF e.date \in Observed
                THEN e.incident_count = incidents[e.date]
                ELSE e.incident_count = 0

\* a series with a filled day after a day with two incidents
C2_Witness ==
    /\ AnomaliesAnswered
    /\ \E i \in 1..(Len(response.series) - 1) :
          /\ response.series[i].incident_count = 2
          /\ response.series[i + 1].date \notin Observed
          /\ response.series[i + 1].incident_count = 0

\* the test abs((count - mean) / std) >= 2.0 stated on the reported mean and
\* the reported std (its square): (count - mean)^2 >= 4 * std^2
FlagExpected(count, mean, std) ==
    /\ ~std.nan
    /\ (count * mean.den - mean.num) * (count * mean.den - mean.num) * std.sq.den
          >= 4 * std.sq.num * mean.den * mean.den

\* C3: a day is in the anomalies list iff abs((count - mean) / effective_std)
\* >= 2.0, where effective_std is the computed deviation, or 1.0 when that is 0;
\* the anomalies are in chronological order and carry the series' counts.
C3_FlaggedIffZAtLeast2 ==
    AnomaliesAnswered =>
        LET series == response.series
            anomalies == response.anomalies
            computed == Std(series)
        IN  /\ response.std = (IF ~computed.nan /\ computed.sq.num = 0
                               THEN Root(FInt(1)) ELSE computed)
            /\ \A i \in 1..Len(series) :
                  (\E j \in 1..Len(anomalies) : anomalies[j].date = series[i].date)
                  <=> FlagExpected(series[i].incident_count, response.mean, response.std)
            /\ \A j \in 1..(Len(anomalies) - 1) :
                  anomalies[j].date < anomalies[j + 1].date
            /\ \A j \in 1..Len(anomalies) :
                  \E i \in 1..Len(series) :
                      /\ series[i].date = anomalies[j].date
                      /\ series[i].incident_count = anomalies[j].incident_count

\* a day with no incident among days with one is flagged, the others are not
C3_Witness ==
    /\ AnomaliesAnswered
    /\ Len(response.anomalies) >= 1
    /\ Len(response.anomalies) < Len(response.series)
    /\ \E j \in 1..Len(response.anomalies) : response.anomalies[j].zscore.sign < 0


\* the population standard deviation of a series: squared deviations over N
PopulationStd(s) == Root(FDiv(SumSqDev(s, Mean(s)), FInt(Len(s))))

\* C4: the standard deviation the anomaly operation uses is the population
\* standard deviation of the dense series (divided by N, not N-1), for N >= 1.
C4_StdIsPopulation ==
    AnomaliesAnswered =>
        LET pop == PopulationStd(response.series)
        IN  response.std = (IF pop.sq.num = 0 THEN Root(FInt(1)) ELSE pop)

\* every count of the series is the same
ConstantSeries(s) == \A i, j \in 1..Len(s) : s[i].incident_count = s[j].incident_count

\* C5: for a single-point series, and any constant series, the anomaly
\* operation does not fail: the computed deviation is 0, the effective std is
\* 1.0, every z-score is 0 and the anomalies list is empty.
C5_ConstantSeriesSafe ==
    (AnomaliesAnswered /\ ConstantSeries(response.series)) =>
        /\ response.status = 200
        /\ Std(response.series) = Root(FInt(0))
        /\ response.std = Root(FInt(1))
        /\ \A i \in 1..Len(response.series) :
              LET z == ZScore(response.series[i].incident_count,
                              response.mean, response.std)
              IN  ~z.nan /\ z.sq.num = 0
        /\ response.anomalies = << >>

\* C6: when the aggregation yields no observations the anomaly operation
\* short-circuits before gap filling and statistics and returns an empty series
\* and an empty anomalies list, not an error.
C6_EmptyShortCircuit ==
    (request.op = "anomalies" /\ request.query = "ok" /\ Observed = {}) =>
        /\ response.status = 200
        /\ response.series = << >>
        /\ response.anomalies = << >>
        /\ DOMAIN response = {"status", "series", "anomalies"}

\* incidents exist, but all of them are older than the 60-day window
C6_Witness ==
    /\ request.op = "anomalies"
    /\ request.query = "ok"
    /\ Observed = {}
    /\ \E d \in Days : incidents[d] > 0
    /\ response.status = 200

\* the forecast endpoint has run its query
ForecastAnswered == request.op = "forecast" /\ request.query = "ok"

\* the integer the request asks for
RequestedDays == IF request.days.kind = "absent" THEN DefaultDays ELSE request.days.val

\* C7: for every integer horizon requested, the forecast has exactly
\* min(60, max(1, days)) points, in the naive, naive_last and linear_trend
\* branches alike.
C7_HorizonClamped ==
    ForecastAnswered =>
        /\ response.status = 200
        /\ response.method \in {"naive", "naive_last", "linear_trend"}
        /\ Len(response.forecast) =
              (IF RequestedDays < MinHorizon THEN MinHorizon
               ELSE IF RequestedDays > MaxHorizon THEN MaxHorizon
               ELSE RequestedDays)

\* a request for more than 60 days on a fitted trend is cut to 60 points
C7_Witness ==
    /\ ForecastAnswered
    /\ request.days.kind = "int"
    /\ request.days.val > MaxHorizon
    /\ response.method = "linear_trend"
    /\ Len(response.forecast) = MaxHorizon

\* the value at time index ti of the line fitted to the returned history
LineValue(fit, ti) == FAdd(FMul(fit.slope, FInt(ti)), fit.intercept)

\* C8: every predicted value of every forecast is >= 0, and a point whose
\* fitted line value is negative is reported as 0.
C8_PredictionsNonNegative ==
    ForecastAnswered =>
        /\ \A i \in 1..Len(response.forecast) :
              response.forecast[i].predicted_incidents >= 0
        /\ response.history # << >> =>
              LET fit == Fit(response.history)
                  last_t == Len(response.history) - 1
              IN  \A i \in 1..Len(response.forecast) :
                      LineValue(fit, last_t + i).num < 0
                          => response.forecast[i].predicted_incidents = 0

\* a falling history whose line crosses zero inside the horizon
C8_Witness ==
    /\ ForecastAnswered
    /\ response.history # << >>
    /\ response.forecast[1].predicted_incidents > 0
    /\ \E i \in 1..Len(response.forecast) :
          /\ LineValue(Fit(response.history), (Len(response.history) - 1) + i).num < 0
          /\ response.forecast[i].predicted_incidents = 0

\* C9: the i-th forecast point is dated i days after the last observed date,
\* or i days after now when there is no history; so the dates are one day
\* apart, increasing, and later than every date of the history.
C9_ForecastDates ==
    ForecastAnswered =>
        LET base == IF Observed = {} THEN now ELSE LastObserved
        IN  /\ \A i \in 1..Len(response.forecast) :
                  response.forecast[i].date = base + i
            /\ \A i \in 1..(Len(response.forecast) - 1) :
                  response.forecast[i + 1].date = response.forecast[i].date + 1
            /\ \A i \in 1..Len(response.forecast) :
                  \A k \in 1..Len(response.history) :
                      response.forecast[i].date > response.history[k].date

\* a forecast of several days after a history of several days with a gap
C9_Witness ==
    /\ ForecastAnswered
    /\ Len(response.history) >= 2
    /\ Len(response.forecast) >= 3
    /\ LastObserved - FirstObserved >= Len(response.history)
    /\ response.forecast[3].date = LastObserved + 3

\* C10: the method is 'naive' iff N = 0, 'naive_last' iff N = 1 (the only case
\* where denom is 0; slope 0, intercept mean(y)) and 'linear_trend' iff
\* N >= 2, where N is the number of points; no series produces an error.
C10_MethodByLength ==
    ForecastAnswered =>
        LET n == Cardinality(Observed)
        IN  /\ response.status = 200
            /\ Len(response.history) = n
            /\ (response.method = "naive") <=> (n = 0)
            /\ (response.method = "naive_last") <=> (n = 1)
            /\ (response.method = "linear_trend") <=> (n >= 2)
            /\ n >= 1 => ((Denom(response.history) = 0) <=> (n = 1))
            /\ n = 1 => \A i \in 1..Len(response.forecast) :
                            response.forecast[i].predicted_incidents
                                = incidents[FirstObserved] * 100

\* a single observation of two incidents, forecast flat at 2.00
C10_Witness ==
    /\ ForecastAnswered
    /\ Cardinality(Observed) = 1
    /\ response.method = "naive_last"
    /\ Len(response.forecast) >= 3
    /\ response.forecast[3].predicted_incidents = 200


\* C11: when the series is empty the forecast is flat: every point predicts the
\* fixed rate 5, the history is empty and the method is 'naive', whatever was
\* requested or answered before.
C11_EmptySeriesFlat ==
    (ForecastAnswered /\ Observed = {}) =>
        /\ response.status = 200
        /\ response.method = "naive"
        /\ response.history = << >>
        /\ Len(response.forecast) >= 1
        /\ \A i \in 1..Len(response.forecast) :
              response.forecast[i].predicted_incidents = 5 * 100

\* a flat forecast of several days from a table with no row in the window
C11_Witness ==
    /\ ForecastAnswered
    /\ Observed = {}
    /\ Len(response.forecast) >= 3
    /\ response.forecast[3].predicted_incidents = 5 * 100

\* C12: for a series of N >= 2 points that all have the same count c, the fit
\* has slope 0 and intercept c, the method is 'linear_trend' and every forecast
\* point predicts exactly c.
C12_ConstantSeriesFlat ==
    (ForecastAnswered /\ Len(response.history) >= 2 /\ ConstantSeries(response.history)) =>
        LET c == response.history[1].incident_count
            fit == Fit(response.history)
        IN  /\ response.method = "linear_trend"
            /\ fit.slope = FInt(0)
            /\ fit.intercept = FInt(c)
            /\ \A i \in 1..Len(response.forecast) :
                  response.forecast[i].predicted_incidents = c * 100

\* three days with two incidents each, forecast at 2.00 for the full horizon
C12_Witness ==
    /\ ForecastAnswered
    /\ Len(response.history) >= 3
    /\ ConstantSeries(response.history)
    /\ response.history[1].incident_count = 2
    /\ Len(response.forecast) = MaxHorizon
    /\ response.forecast[MaxHorizon].predicted_incidents = 200


\* ---------------------------------------------------------------------
\* Properties of the executive summary
\* ---------------------------------------------------------------------
\* the summary endpoint has answered for a row that exists
SummaryAnswered ==
    /\ request.op = "summary"
    /\ request.query = "ok"
    /\ incident.found

\* the stored severity in lower case, the stored category and description, with
\* the text the handler takes for NULL
StoredSeverity ==
    IF incident.severity.kind = "null" THEN Txt.unknown ELSE Lower(incident.severity.v)
StoredCategory ==
    IF incident.category.kind = "null" THEN Txt.general ELSE incident.category.v
StoredDescription ==
    IF incident.description.kind = "null" THEN << >> ELSE incident.description.v

\* the conditions of the rules 1, 2 and 3
Rule1Matches == StoredSeverity = Txt.critical \/ StoredSeverity = Txt.high
Rule2Matches ==
    \/ Contains(StoredCategory, Txt.authentication)
    \/ Contains(Lower(StoredDescription), Txt.mfa)
    \/ /\ incident.tags.kind = "value"
       /\ \E k \in 1..Len(incident.tags.v) : Lower(incident.tags.v[k]) = Txt.mfa
Rule3Matches ==
    \/ Contains(StoredCategory, Txt.data_leak)
    \/ Contains(StoredCategory, Txt.credential)
    \/ Contains(StoredCategory, Txt.insider)
    \/ Contains(StoredCategory, Txt.third_party)

\* C13: the suggested actions are exactly the actions of the matching rules in
\* the order 1-2-3-4: the two command actions iff the severity is critical or
\* high, then the MFA action, then the data-exposure action iff the category
\* holds one of its four keywords, then the review action, always last and
\* once; no action appears twice.
C13_ActionsInRuleOrder ==
    SummaryAnswered =>
        LET got == response.summary.suggestions
        IN  /\ got = (IF Rule1Matches THEN <<Act.command, Act.contain>> ELSE << >>)
                     \o (IF Rule2Matches THEN <<Act.mfa>> ELSE << >>)
                     \o (IF Rule3Matches THEN <<Act.exposure>> ELSE << >>)
                     \o <<Act.review>>
            /\ got[Len(got)] = Act.review
            /\ \A i, j \in 1..Len(got) : got[i] = got[j] => i = j

\* all four rules match: five actions in rule order
C13_Witness ==
    /\ SummaryAnswered
    /\ incident.severity = Val(<<"C", "r", "i", "t", "i", "c", "a", "l">>)
    /\ response.summary.suggestions =
          <<Act.command, Act.contain, Act.mfa, Act.exposure, Act.review>>

\* C14: the MFA action is listed iff the category contains 'authentication', or
\* the description contains 'mfa' in any letter case, or a tag equals 'mfa' in
\* any letter case; a tags field that is missing or no list counts as no tags.
C14_MfaActionIff ==
    SummaryAnswered =>
        ((\E i \in 1..Len(response.summary.suggestions) :
              response.summary.suggestions[i] = Act.mfa)
         <=> Rule2Matches)

\* the upper-case 'MFA' of the description alone brings the action
C14_Witness ==
    /\ SummaryAnswered
    /\ incident.description = Val(<<"M", "F", "A", " ", "o", "f", "f">>)
    /\ ~Contains(StoredCategory, Txt.authentication)
    /\ incident.tags.kind # "value"
    /\ \E i \in 1..Len(response.summary.suggestions) :
          response.summary.suggestions[i] = Act.mfa

\* the score the handler bands: 0.0 for a missing or unparsable risk_score
StoredRisk ==
    IF incident.risk_score.kind = "value" THEN incident.risk_score.v ELSE FInt(0)

\* C15: the risk band is a total function of the score with inclusive lower
\* thresholds: Very High iff >= 0.9, High iff 0.7 <= score < 0.9, Moderate iff
\* 0.5 <= score < 0.7, Low iff < 0.5; a missing or unparsable score is 0.0 and
\* Low; scores outside [0, 1] get exactly one band.
C15_RiskBands ==
    SummaryAnswered =>
        LET r == StoredRisk
            band == response.summary.risk_band
        IN  /\ response.summary.risk = r
            /\ band \in {"Very High", "High", "Moderate", "Low"}
            /\ (band = "Very High") <=> (10 * r.num >= 9 * r.den)
            /\ (band = "High") <=> (10 * r.num >= 7 * r.den /\ 10 * r.num < 9 * r.den)
            /\ (band = "Moderate") <=> (10 * r.num >= 5 * r.den /\ 10 * r.num < 7 * r.den)
            /\ (band = "Low") <=> (10 * r.num < 5 * r.den)
            /\ incident.risk_score.kind # "value" => band = "Low"

\* a score exactly on the upper threshold is Very High
C15_Witness ==
    /\ SummaryAnswered
    /\ incident.risk_score = Val(Frac(90, 100))
    /\ response.summary.risk_band = "Very High"

\* C16: for a row that exists the summary never fails on a NULL optional field:
\* for every set of NULL fields a summary is returned, with title 'Untitled
\* Incident', category 'general', business_impact 'Not specified', root_cause
\* 'Undetermined' and resolution 'In progress' (whose sections are then left
\* out), risk_score 0.0, affected_users 0 and resolution_time_hours 0.
C16_NullFieldsDefaulted ==
    SummaryAnswered =>
        LET sm == response.summary
            IsNull(f) == incident[f].kind = "null"
        IN  /\ response.status = 200
            /\ IsNull("title") => sm.title = "Untitled Incident"
            /\ IsNull("category") => sm.category = Txt.general
            /\ IsNull("business_impact") => sm.business_impact = "Not specified"
            /\ IsNull("root_cause") => sm.root_cause = << >>
            /\ IsNull("resolution") => sm.actions_taken = << >>
            /\ IsNull("risk_score") => sm.risk = FInt(0) /\ sm.risk_band = "Low"
            /\ IsNull("affected_users") => sm.affected_users = 0
            /\ IsNull("resolution_time_hours") => sm.resolution_time = FInt(0)
            /\ IsNull("description") => sm.context = << >>
            /\ IsNull("severity") => sm.severity_text = "Standard response"
            /\ IsNull("status") => sm.status = Title(Txt.unknown)
            /\ ~IsNull("title") => sm.title = incident.title.v
            /\ ~IsNull("business_impact") => sm.business_impact = incident.business_impact.v

\* every optional field is NULL and the summary is returned with the defaults
C16_Witness ==
    /\ SummaryAnswered
    /\ \A f \in OptionalFields : incident[f].kind = "null"
    /\ response.status = 200
    /\ response.summary.title = "Untitled Incident"
    /\ response.summary.suggestions = <<Act.review>>


\* ---------------------------------------------------------------------
\* Properties of the playbook
\* ---------------------------------------------------------------------
\* the playbook endpoint has answered with the fallback playbook
FallbackAnswered ==
    /\ request.op = "playbook"
    /\ request.query = "ok"
    /\ response.provider = "fallback"

\* the severity and category texts the fallback was given: those of the row
\* when the lookup found it, 'medium' and 'general' otherwise (a NULL cell is
\* no text, and triggers nothing, as these two)
GivenSeverity ==
    IF request.lookup = "ok" /\ incident.found /\ incident.severity.kind = "value"
    THEN incident.severity.v ELSE Txt.medium
GivenCategory ==
    IF request.lookup = "ok" /\ incident.found /\ incident.category.kind = "value"
    THEN incident.category.v ELSE Txt.general

ContainName == "Contain affected accounts/systems"
EstablishName == "Establish incident channel and assign roles"
MfaStepName == "Force password reset & MFA re-verification"

\* C17: in the fallback playbook the step 'Contain affected accounts/systems'
\* has eta_hours 1 iff the severity is 'critical' in any letter case, and 2
\* otherwise, with priority P1 in both cases, whether or not the
\* authentication step stands before it; the inserted step is left as
\* inserted, and every other step is as in the base template.
C17_ContainEtaBySeverity ==
    FallbackAnswered =>
        LET pb == response.playbook
            critical == Lower(GivenSeverity) = Txt.critical
        IN  /\ \E i \in 1..Len(pb) :
                  /\ pb[i].step = ContainName
                  /\ \A j \in 1..Len(pb) : pb[j].step = ContainName => j = i
            /\ \A i \in 1..Len(pb) :
                  /\ pb[i].step = ContainName =>
                        /\ pb[i].priority = "P1"
                        /\ pb[i].eta_hours = (IF critical THEN 1 ELSE 2)
                  /\ pb[i].step = MfaStepName =>
                        /\ pb[i].eta_hours = 1
                        /\ pb[i].priority = "P1"
                        /\ pb[i].owner = "IAM Admin"
                  /\ pb[i].step \notin {ContainName, MfaStepName} =>
                        \E j \in 1..Len(Base) : pb[i] = Base[j]

\* a 'Critical' authentication incident: the inserted step is second, and the
\* containment step behind it has the tightened eta
C17_Witness ==
    /\ FallbackAnswered
    /\ GivenSeverity = <<"C", "r", "i", "t", "i", "c", "a", "l">>
    /\ response.playbook[2].step = MfaStepName
    /\ response.playbook[3].step = ContainName
    /\ response.playbook[3].eta_hours = 1

\* C18: the fallback playbook contains the step 'Force password reset & MFA
\* re-verification' (IAM Admin, eta 1, P1, IAM) iff the category contains
\* 'authentication' as a case-insensitive substring; when present it is the
\* second step, directly after 'Establish incident channel and assign roles'
\* and directly before 'Contain affected accounts/systems'.
C18_MfaStepIffAuthentication ==
    FallbackAnswered =>
        LET pb == response.playbook
            present == \E i \in 1..Len(pb) : pb[i].step = MfaStepName
        IN  /\ present <=> Contains(Lower(GivenCategory), Txt.authentication)
            /\ present =>
                  /\ pb[2] = [step |-> MfaStepName, owner |-> "IAM Admin", eta_hours |-> 1,
                              priority |-> "P1", tooling |-> "IAM"]
                  /\ pb[1].step = EstablishName
                  /\ pb[3].step = ContainName
                  /\ \A i \in 1..Len(pb) : pb[i].step = MfaStepName => i = 2

\* C19: the fallback playbook has between 5 and 7 steps; when the
\* authentication step is inserted the only base step dropped is the last one,
\* 'Post-incident review and lessons learned', and the other six keep their
\* order; when nothing is inserted the 7 base steps are returned in template
\* order.
C19_SevenStepsTailDropped ==
    FallbackAnswered =>
        LET pb == response.playbook
            names == [i \in 1..Len(pb) |-> pb[i].step]
            IsBaseName(n) == n # MfaStepName
            inserted == \E i \in 1..Len(pb) : names[i] = MfaStepName
        IN  /\ Len(pb) >= 5
            /\ Len(pb) <= 7
            /\ inserted => SelectSeq(names, IsBaseName) = [i \in 1..6 |-> Base[i].step]
            /\ ~inserted => names = [i \in 1..7 |-> Base[i].step]

\* the step is inserted: seven steps, the last of them the sixth of the template
C19_Witness ==
    /\ FallbackAnswered
    /\ Len(response.playbook) = 7
    /\ response.playbook[2].step = MfaStepName
    /\ response.playbook[7].step = "User comms and awareness"

\* C20: with a client, whenever the generative call raises or returns an empty
\* table, the answer is the fallback playbook with provider 'fallback' and no
\* error; when the follow-up lookup fails or finds no incident, it is the
\* unchanged 7-step base template (severity 'medium', category 'general').
C20_FallbackNeverErrors ==
    (/\ request.op = "playbook"
     /\ request.query = "ok"
     /\ request.ai.raises \/ Len(request.ai.rows) = 0) =>
        /\ response.status = 200
        /\ response.provider = "fallback"
        /\ Len(response.playbook) = 7
        /\ response.playbook[1] = Base[1]
        /\ (request.lookup = "failed" \/ ~incident.found) => response.playbook = Base

\* an empty table for a critical authentication incident whose lookup fails:
\* the base template is returned
C20_Witness ==
    /\ request.op = "playbook"
    /\ request.query = "ok"
    /\ ~request.ai.raises
    /\ Len(request.ai.rows) = 0
    /\ request.lookup = "failed"
    /\ incident.found
    /\ incident.severity = Val(Txt.critical)
    /\ incident.category.kind = "value"
    /\ Contains(incident.category.v, Txt.authentication)
    /\ response.provider = "fallback"
    /\ response.playbook = Base

\* ---------------------------------------------------------------------
\* Properties of the returned playbook and of the forecast over gaps
\* ---------------------------------------------------------------------
\* C21: every playbook returned, by the generative path or by the fallback, has
\* between 5 and 7 rows, and each row has exactly the fields step, owner,
\* eta_hours, priority, tooling.
C21_PlaybookShape ==
    (request.op = "playbook" /\ request.query = "ok") =>
        /\ Len(response.playbook) >= 5
        /\ Len(response.playbook) <= 7
        /\ \A i \in 1..Len(response.playbook) :
              DOMAIN response.playbook[i] = {"step", "owner", "eta_hours", "priority", "tooling"}

\* the dense series over the observed range of the history of the response
DenseHistory ==
    Reindex(response.history,
            DateRange(DateMin(response.history), DateMax(response.history)))

\* C26: the forecaster fits its line over the dense daily series: t is the
\* number of calendar days since the first observed date, the days without
\* incidents inside the range count 0, N is the number of calendar days of
\* the range, and the point d days after the last date is evaluated at
\* t = (N - 1) + d.
C26_FitOverDenseSeries ==
    (ForecastAnswered /\ Len(response.history) >= 1) =>
        LET dense == DenseHistory
            fit == Fit(dense)
        IN  /\ response.method = fit.method
            /\ \A d \in 1..Len(response.forecast) :
                  response.forecast[d].predicted_incidents =
                      Round2(Predict(fit, (Len(dense) - 1) + d))

\* ---------------------------------------------------------------------
\* Properties of the compliance check
\* ---------------------------------------------------------------------
\* the compliance endpoint has answered for a row that exists
ComplianceAnswered ==
    /\ request.op = "compliance"
    /\ request.query = "ok"
    /\ incident.found

\* the incident has the tag key; its description contains key as written, and
\* in any letter case
HasTag(key) ==
    /\ incident.tags.kind = "value"
    /\ \E k \in 1..Len(incident.tags.v) : incident.tags.v[k] = key
DescriptionHas(key) ==
    /\ incident.description.kind = "value"
    /\ Contains(incident.description.v, key)
DescriptionHasAnyCase(key) ==
    /\ incident.description.kind = "value"
    /\ Contains(Lower(incident.description.v), key)

\* C22: the applicable policy is that of the first matching rule in the order
\* MFA, SaaS, Access, General: 'MFA Policy' iff the tag 'mfa' is present or the
\* description contains 'mfa'; otherwise 'SaaS Usage Policy' iff the tag 'saas'
\* is present or the description contains 'saas'; otherwise 'Access Control
\* Policy' iff the tag 'access' is present or the description contains
\* 'access'; otherwise 'General Security Policy'.
C22_PolicyFirstMatch ==
    ComplianceAnswered =>
        response.applicable_policy =
            IF HasTag(Txt.mfa) \/ DescriptionHas(Txt.mfa) THEN "MFA Policy"
            ELSE IF HasTag(Txt.saas) \/ DescriptionHas(Txt.saas) THEN "SaaS Usage Policy"
            ELSE IF HasTag(Txt.access) \/ DescriptionHas(Txt.access) THEN "Access Control Policy"
            ELSE "General Security Policy"

\* C22, with the letter case the query compares in: a tag matches when it
\* equals the keyword as written, the description when it contains the keyword
\* in any letter case; a NULL description or tags array matches nothing; the
\* first matching rule in the order MFA, SaaS, Access decides, and exactly one
\* of the four policies is returned.
C22_PolicyFirstMatchAnyCase ==
    ComplianceAnswered =>
        /\ response.status = 200
        /\ response.applicable_policy \in
              {"MFA Policy", "SaaS Usage Policy", "Access Control Policy",
               "General Security Policy"}
        /\ response.applicable_policy =
              IF HasTag(Txt.mfa) \/ DescriptionHasAnyCase(Txt.mfa) THEN "MFA Policy"
              ELSE IF HasTag(Txt.saas) \/ DescriptionHasAnyCase(Txt.saas)
                   THEN "SaaS Usage Policy"
              ELSE IF HasTag(Txt.access) \/ DescriptionHasAnyCase(Txt.access)
                   THEN "Access Control Policy"
              ELSE "General Security Policy"

\* an incident that matches all three rules gets the MFA policy
C22_Witness ==
    /\ ComplianceAnswered
    /\ HasTag(Txt.mfa)
    /\ HasTag(Txt.access)
    /\ DescriptionHasAnyCase(Txt.saas)
    /\ response.applicable_policy = "MFA Policy"

\* C23: the compliance assessment depends on the severity alone: critical,
\* high, medium and low have their own assessment, every other severity,
\* NULL included, is 'Minimal Risk - Routine Handling', and any incident with
\* the same severity gets the same assessment whatever its tags, description
\* and risk score.
C23_AssessmentBySeverityAlone ==
    ComplianceAnswered =>
        /\ response.compliance_assessment =
              IF incident.severity = Val(Txt.critical)
              THEN "High Risk - Immediate Action Required"
              ELSE IF incident.severity = Val(Txt.high)
              THEN "High Risk - Escalate to Senior Team"
              ELSE IF incident.severity = Val(Txt.medium)
              THEN "Medium Risk - Standard Response"
              ELSE IF incident.severity = Val(Txt.low)
              THEN "Low Risk - Monitor and Document"
              ELSE "Minimal Risk - Routine Handling"
        /\ \A other \in PolicyRows \cup RiskRows :
              other.severity = incident.severity =>
                  ComplianceResult(other, now).compliance_assessment =
                      response.compliance_assessment

\* a medium incident with a very high risk score is assessed as medium
C23_Witness ==
    /\ ComplianceAnswered
    /\ incident.severity = Val(Txt.medium)
    /\ incident.risk_score = Val(Frac(90, 100))
    /\ response.compliance_assessment = "Medium Risk - Standard Response"

\* ---------------------------------------------------------------------
\* Properties of the roles and of the stored data
\* ---------------------------------------------------------------------
\* the role the request names: the first of header, cookie and argument that
\* is there and not empty, without the blanks around it and in lower case
NamedRole ==
    LET s == request.sources
        IsThere(cell) == cell.kind = "value" /\ Len(cell.v) > 0
        named == IF IsThere(s.header) THEN s.header.v
                 ELSE IF IsThere(s.cookie) THEN s.cookie.v
                 ELSE IF IsThere(s.arg) THEN s.arg.v
                 ELSE << >>
    IN  Lower(Strip(named))

\* C28: the effective role of a request is viewer, analyst or admin: the named
\* role when that is one of the three, and viewer for a missing or
\* unrecognised one, which never yields analyst or admin.
C28_EffectiveRole ==
    /\ request.op = "whoami" =>
          /\ response.role \in {Txt.viewer, Txt.analyst, Txt.admin}
          /\ response.role =
                (IF NamedRole \in {Txt.viewer, Txt.analyst, Txt.admin}
                 THEN NamedRole ELSE Txt.viewer)
          /\ response.role \in {Txt.analyst, Txt.admin} => response.role = NamedRole
    /\ (request.op = "evidence" /\ response.status = 403) => response.role = Txt.viewer

\* the header ' Admin ' wins over the cookie 'VIEWER' and is read as admin
C28_Witness ==
    /\ request.op = "whoami"
    /\ request.sources.header = Val(<<" ", "A", "d", "m", "i", "n", " ">>)
    /\ request.sources.cookie = Val(<<"V", "I", "E", "W", "E", "R">>)
    /\ response.role = Txt.admin

\* C27: a request whose effective role is viewer never inserts a row: on every
\* write endpoint (evidence POST, feedback POST) it is refused (403, or an
\* error when the service cannot answer) and the insert is not performed.
C27_ViewerNeverWrites ==
    [][(/\ request'.op \in {"evidence", "feedback"}
        /\ request'.method = "POST"
        /\ GetUserRole(request'.sources) = Txt.viewer)
       => /\ evidence' = evidence
          /\ feedback' = feedback
          /\ response'.status # 200]_vars

\* C25: the summary, playbook, compliance, anomaly and forecast operations only
\* read: whatever their outcome, the incidents are as before and no row has
\* been inserted into, changed in or removed from a table.
C25_ReadsLeaveTablesUnchanged ==
    [][request'.op \in {"summary", "playbook", "compliance", "anomalies", "forecast"}
       => UNCHANGED <<incidents, incident, evidence, feedback>>]_vars

\* a fallback playbook answered when both tables already hold a row
C25_Witness ==
    /\ request.op = "playbook"
    /\ request.query = "ok"
    /\ response.provider = "fallback"
    /\ Len(evidence) = 1
    /\ Len(feedback) = 1

\* ---------------------------------------------------------------------
\* Properties of the search for similar incidents
\* ---------------------------------------------------------------------
\* the order of the attempts of the request being served, and what the answer
\* says about them
AttemptOrder ==
    LET a == request.attempts
    IN  /\ QueryText(request.text) = << >> => response.status = 400 /\ a = << >>
        /\ Len(a) >= 1 => a[1].kind = "semantic"
        /\ \A i \in 1..Len(a) : a[i].kind = "keyword" => i = 2 /\ ~a[1].ok
        /\ Len(a) <= 2
        /\ (Len(a) = 2 /\ a[2].ok) =>
              /\ response.status = 200
              /\ "fallback" \in DOMAIN response
              /\ response.fallback = TRUE
        /\ (Len(a) = 1 /\ a[1].ok) =>
              /\ response.status = 200
              /\ "fallback" \notin DOMAIN response
        /\ response.status = 500 => Len(a) = 2 /\ ~a[1].ok /\ ~a[2].ok

\* C29: a request without query text is rejected (400) before any warehouse
\* query; otherwise the semantic query is attempted first, the keyword query
\* once and only after the semantic attempt failed; a keyword answer is marked
\* fallback=True and a semantic answer is not; an error (500) is returned only
\* when both attempts failed.
C29_AttemptOrder == request.op = "similar" => AttemptOrder

\* C29, for a service whose warehouse client is available (without a client
\* every request is answered 500 before the query text is looked at and
\* before any attempt).
C29_AttemptOrderWithClient ==
    /\ (request.op = "similar" /\ client) => AttemptOrder
    /\ (request.op = "similar" /\ ~client) =>
          response.status = 500 /\ request.attempts = << >>

\* the keyword search answers after the semantic attempt failed
C29_Witness ==
    /\ request.op = "similar"
    /\ client
    /\ request.attempts = <<Attempt("semantic", FALSE), Attempt("keyword", TRUE)>>
    /\ response.fallback = TRUE
    /\ response.results # {}

\* the keyword search has answered
KeywordAnswered ==
    /\ request.op = "similar"
    /\ Len(request.attempts) = 2
    /\ request.attempts[2].ok

\* the title or the description of the row contains the text, in any letter case
RowContains(row, text) ==
    \/ row.title.kind = "value" /\ Contains(Lower(row.title.v), Lower(text))
    \/ row.description.kind = "value" /\ Contains(Lower(row.description.v), Lower(text))

\* C30: the keyword search returns only incidents whose title or description
\* contains the query text (in any letter case), each with similarity_score
\* 0.9; the 0.3 band is never returned, and at most 5 results are returned.
C30_OnlyMatchesReturned ==
    KeywordAnswered =>
        /\ Cardinality(response.results) <= 5
        /\ \A r \in response.results :
              /\ r.similarity_score = 90
              /\ r.similarity_score # 30
              /\ RowContains(Catalog[r.incident_id], QueryText(request.text))

\* ---------------------------------------------------------------------
\* Properties of playbook requests served at the same time
\* ---------------------------------------------------------------------
\* C24: the fallback playbook of a request depends only on that request's
\* severity and category: in every interleaving of requests each request
\* starts from the unmodified base template, an override or insertion made
\* for one request never shows in the playbook of another, and requests with
\* the same input get the same playbook.
C24_PlaybookOfOwnInput ==
    /\ \A w \in (1..MaxWorkers) :
          /\ workers[w].pc = "override" => heap[workers[w].base] = Base
          /\ workers[w].pc = "return" =>
                workers[w].playbook =
                    FirstSeven(InsertAuthentication(
                        OverrideCritical(Base, workers[w].sev), workers[w].category))
    /\ \A v, w \in (1..MaxWorkers) :
          (/\ workers[v].pc = "return"
           /\ workers[w].pc = "return"
           /\ workers[v].sev = workers[w].sev
           /\ workers[v].category = workers[w].category)
          => workers[v].playbook = workers[w].playbook

\* two requests answer at the same time: the critical authentication one with
\* the inserted step and the tightened eta, the other with the base template
C24_Witness ==
    /\ workers[1].pc = "return"
    /\ workers[2].pc = "return"
    /\ workers[1].sev = Val(Txt.critical)
    /\ workers[1].category = Val(Txt.authentication)
    /\ workers[1].playbook[2] = MfaStep
    /\ workers[1].playbook[3].eta_hours = 1
    /\ workers[2].sev = Val(Txt.medium)
    /\ workers[2].playbook = Base

=============================================================================
